---- MODULE Spec2Model ----
(***************************************************************************)
(* A model of the codegraph indexing pipeline (ExtractionOrchestrator:     *)
(* indexAll, indexFiles, sync) over a small filesystem, git work tree and  *)
(* graph store, and of the cross-process FileLock.                         *)
(***************************************************************************)
EXTENDS Naturals, Integers, Sequences, FiniteSets, TLC

(***************************************************************************)
(* Bounds of the model.                                                    *)
(***************************************************************************)
\* Date.now() is read as a value in 0..MaxClock.
MaxClock == 1
\* Number of processes that compete for the lock file.
NumProcs == 2

(***************************************************************************)
(* State.                                                                  *)
(***************************************************************************)
\* The configuration and the links of the project; neither changes while the
\* program runs.
VARIABLES
  config,    \* this.config: the include and exclude patterns
  linked     \* the project paths that are symbolic links to a file outside the root

(***************************************************************************)
(* The project: paths, contents, configuration.                            *)
(***************************************************************************)
\* Paths in the order the scanner (git ls-files or readdir) returns them.
PathOrder == <<"a.ts", "b.ts", "c.ts">>
Paths == {PathOrder[i] : i \in 1..Len(PathOrder)}

\* Relative paths a caller can pass that do not name a project file: two that
\* leave the root through "..", one of which names no file at all, and one
\* into a sibling directory whose name starts with the name of the root.
OutsidePaths == {"../x.ts", "sub/../../y.ts", "../proj2/z.ts"}
AllPaths == Paths \cup OutsidePaths

\* path.resolve(projectRoot): the root is /proj.
rootDir == <<"proj">>

\* The segments of a relative path.
Segments(p) ==
  CASE p = "../x.ts" -> <<"..", "x.ts">>
    [] p = "sub/../../y.ts" -> <<"sub", "..", "..", "y.ts">>
    [] p = "../proj2/z.ts" -> <<"..", "proj2", "z.ts">>
    [] OTHER -> <<p>>

\* path.resolve(base, path): ".." drops the last segment (and stays at the
\* filesystem root), "." is dropped, any other segment is appended.
RECURSIVE pathResolve(_, _)
pathResolve(base, segs) ==
  IF segs = <<>> THEN base
  ELSE LET h == Head(segs)
           next == CASE h = ".." -> IF base = <<>> THEN base
                                    ELSE SubSeq(base, 1, Len(base) - 1)
                     [] h = "." -> base
                     [] OTHER -> Append(base, h)
       IN  pathResolve(next, Tail(segs))

\* resolved.startsWith(root + path.sep) || resolved === root
startsWithDir(resolved, root) ==
  /\ Len(resolved) >= Len(root)
  /\ SubSeq(resolved, 1, Len(root)) = root

\* File contents are named by small numbers; NoFile means the path is absent.
NoFile == 0

\* The files outside the root: /x.ts and /proj2/z.ts exist, /y.ts does not.
OutsideContent(p) == IF p = "sub/../../y.ts" THEN NoFile ELSE 1

\* The filesystem with no file in the project.
EmptyDisk == [p \in AllPaths |-> IF p \in Paths THEN NoFile ELSE OutsideContent(p)]
\* 1: one function; 2: a class with a method that calls something;
\* 3: a source larger than maxFileSize; 4: a source on which parse throws
\* (no path takes content 4 at the present bounds).
PathContents(p) ==
  CASE p = "a.ts" -> {1, 2, 3}
    [] p = "b.ts" -> {1}
    [] OTHER -> {1}

\* config.maxFileSize (scaled down), and stats.size of a content.
maxFileSize == 4
Size(c) == CASE c = 1 -> 1 [] c = 2 -> 2 [] c = 3 -> maxFileSize + 1 [] OTHER -> 1

\* Files read per batch by indexAll (scaled down from 10 so that a run over
\* three files has two batches).
FILE_IO_BATCH_SIZE == 2

\* hashContent: SHA-256 of the content; distinct contents, distinct digests.
hashContent(c) == <<"sha256", c>>

\* picomatch.isMatch(path, pattern, {dot: true}) for the patterns of the config.
matchesGlob(p, pattern) ==
  CASE pattern = "**/*.ts" -> p \in {"a.ts", "b.ts", "c.ts"}
    [] pattern = "a.ts" -> p = "a.ts"
    [] pattern = "b.ts" -> p = "b.ts"
    [] OTHER -> FALSE

configInclude == {"**/*.ts"}
configExclude == {}
DefaultConfig == [include |-> configInclude, exclude |-> configExclude]

\* shouldIncludeFile(filePath, this.config): exclude patterns first, then
\* include patterns.
shouldIncludeFile(p) ==
  IF \E pat \in config.exclude : matchesGlob(p, pat) THEN FALSE
  ELSE \E pat \in config.include : matchesGlob(p, pat)

\* A path check that accepts every path.
validatePathAlways(p) == TRUE

\* validatePathWithinRoot: the path resolved against the root stays inside
\* the root (the function returns the resolved path, or null).
validatePathWithinRoot(p) ==
  startsWithDir(pathResolve(rootDir, Segments(p)), rootDir)

\* detectLanguage: EXTENSION_MAP applied to the extension of the path.
detectLanguage(p) ==
  CASE p \in {"a.ts", "b.ts", "c.ts"} -> "typescript"
    [] p = "t.liquid" -> "liquid"
    [] p = "k.kt" -> "kotlin"
    [] OTHER -> "unknown"

\* GRAMMAR_MAP: the languages whose grammar module loaded (the kotlin
\* binding is missing on this platform; liquid has no grammar entry).
GRAMMAR_MAP == {"typescript"}

isLanguageSupported(lang) ==
  IF lang = "liquid" THEN TRUE ELSE lang # "unknown" /\ lang \in GRAMMAR_MAP

\* getParser: a parser for a language of GRAMMAR_MAP, null otherwise.
getParser(lang) == IF lang \in GRAMMAR_MAP THEN lang ELSE "null"

(***************************************************************************)
(* Extraction.                                                             *)
(***************************************************************************)
generateNodeId(filePath, kind, name, line) == <<filePath, kind, name, line>>

createNode(filePath, kind, name, line, now) ==
  [id |-> generateNodeId(filePath, kind, name, line),
   filePath |-> filePath, updatedAt |-> now]

NoExtraction == [nodes |-> {}, edges |-> {}, refs |-> {}, errors |-> <<>>]

Err(msg, sev) == [message |-> msg, severity |-> sev]

\* extractFromSource: the nodes, edges and unresolved references of a content.
extractFromSource(p, c, lang, now) ==
  IF ~isLanguageSupported(lang)
    THEN [NoExtraction EXCEPT !.errors = <<Err("Unsupported language", "error")>>]
  ELSE IF getParser(lang) = "null"
    THEN [NoExtraction EXCEPT !.errors = <<Err("Failed to get parser", "error")>>]
  ELSE
  CASE c = 1 ->
         [nodes |-> {createNode(p, "function", "hello", 1, now)},
          edges |-> {}, refs |-> {}, errors |-> <<>>]
    [] c = 2 ->
         [nodes |-> {createNode(p, "class", "C", 1, now),
                     createNode(p, "method", "m", 2, now)},
          edges |-> {[source |-> generateNodeId(p, "class", "C", 1),
                      target |-> generateNodeId(p, "method", "m", 2),
                      kind |-> "contains"]},
          refs |-> {[fromNodeId |-> generateNodeId(p, "method", "m", 2),
                     referenceName |-> "x", referenceKind |-> "calls"]},
          errors |-> <<>>]
    [] c = 4 ->
         [nodes |-> {}, edges |-> {}, refs |-> {},
          errors |-> <<Err("Parse error", "error")>>]
    [] OTHER ->
         [nodes |-> {createNode(p, "function", "big", 1, now)},
          edges |-> {}, refs |-> {}, errors |-> <<>>]

(***************************************************************************)
(* The graph store (QueryBuilder).                                         *)
(***************************************************************************)
NoRec == [present |-> FALSE]

EmptyDb == [files |-> [p \in AllPaths |-> NoRec], nodes |-> {}, edges |-> {}, refs |-> {}]

getFileByPath(db, p) == db.files[p]

NodeIdsOf(db, p) == {n.id : n \in {m \in db.nodes : m.filePath = p}}

\* delete_file(path): the file record, its nodes, the edges rooted at those
\* nodes and their unresolved references.
deleteFile(db, p) ==
  [files |-> [db.files EXCEPT ![p] = NoRec],
   nodes |-> {n \in db.nodes : n.filePath # p},
   edges |-> {e \in db.edges : e.source \notin NodeIdsOf(db, p)},
   refs |-> {r \in db.refs : r.fromNodeId \notin NodeIdsOf(db, p)}]

insertNodes(db, ns) ==
  [db EXCEPT !.nodes = {n \in db.nodes : n.id \notin {m.id : m \in ns}} \cup ns]

insertEdges(db, es) == [db EXCEPT !.edges = db.edges \cup es]

insertUnresolvedRefsBatch(db, rs) == [db EXCEPT !.refs = db.refs \cup rs]

upsertFile(db, p, rec) == [db EXCEPT !.files[p] = rec]

\* The store operations of storeExtractionResult, in call order; one of them
\* may throw a database error.
StoreOps == <<"deleteFile", "insertNodes", "insertEdges",
              "insertUnresolvedRefsBatch", "upsertFile">>
FailPoints == {"none"} \cup {StoreOps[i] : i \in 1..Len(StoreOps)}


\* storeExtractionResult: the store calls run one after another, outside any
\* transaction; when the call named failAt throws, the calls made before it
\* have taken effect.
storeExtractionResult(db, p, c, lang, size, result, now, failAt) ==
  LET contentHash == hashContent(c)
      existingFile == getFileByPath(db, p)
      fileRecord == [present |-> TRUE, contentHash |-> contentHash,
                     language |-> lang, size |-> size, indexedAt |-> now,
                     nodeCount |-> Cardinality(result.nodes),
                     hasErrors |-> Len(result.errors) > 0]
      d1 == IF existingFile.present THEN deleteFile(db, p) ELSE db
      d2 == IF result.nodes # {} THEN insertNodes(d1, result.nodes) ELSE d1
      d3 == IF result.edges # {} THEN insertEdges(d2, result.edges) ELSE d2
      d4 == IF result.refs # {} THEN insertUnresolvedRefsBatch(d3, result.refs) ELSE d3
      d5 == upsertFile(d4, p, fileRecord)
  IN  IF existingFile.present /\ existingFile.contentHash = contentHash
        THEN [db |-> db, thrown |-> FALSE]
      ELSE IF existingFile.present /\ failAt = "deleteFile"
        THEN [db |-> db, thrown |-> TRUE]
      ELSE IF result.nodes # {} /\ failAt = "insertNodes"
        THEN [db |-> d1, thrown |-> TRUE]
      ELSE IF result.edges # {} /\ failAt = "insertEdges"
        THEN [db |-> d2, thrown |-> TRUE]
      ELSE IF result.refs # {} /\ failAt = "insertUnresolvedRefsBatch"
        THEN [db |-> d3, thrown |-> TRUE]
      ELSE IF failAt = "upsertFile"
        THEN [db |-> d4, thrown |-> TRUE]
      ELSE [db |-> d5, thrown |-> FALSE]

\* indexFileWithContent: path check, size check, language check, extraction
\* (at time now) and storing (at time storeNow).
indexFileWithContent(db, p, c, size, now, storeNow, failAt) ==
  IF ~validatePathWithinRoot(p)
    THEN [db |-> db, thrown |-> FALSE,
          result |-> [NoExtraction EXCEPT
                        !.errors = <<Err("Path traversal blocked", "error")>>]]
  ELSE IF size > maxFileSize
    THEN [db |-> db, thrown |-> FALSE,
          result |-> [NoExtraction EXCEPT
                        !.errors = <<Err("File exceeds max size", "warning")>>]]
  ELSE IF ~isLanguageSupported(detectLanguage(p))
    THEN [db |-> db, thrown |-> FALSE, result |-> NoExtraction]
  ELSE LET result == extractFromSource(p, c, detectLanguage(p), now)
       IN  IF result.nodes # {} \/ Len(result.errors) = 0
             THEN LET st == storeExtractionResult(db, p, c, detectLanguage(p), size,
                                                  result, storeNow, failAt)
                  IN  [db |-> st.db, thrown |-> st.thrown, result |-> result]
             ELSE [db |-> db, thrown |-> FALSE, result |-> result]

\* indexFile: path check, stat and read of the file on disk, then
\* indexFileWithContent.
indexFile(db, fsDisk, p, now, storeNow, failAt) ==
  IF ~validatePathWithinRoot(p)
    THEN [db |-> db, thrown |-> FALSE,
          result |-> [NoExtraction EXCEPT
                        !.errors = <<Err("Path traversal blocked", "error")>>]]
  ELSE IF fsDisk[p] = NoFile
    THEN [db |-> db, thrown |-> FALSE,
          result |-> [NoExtraction EXCEPT
                        !.errors = <<Err("Failed to read file", "error")>>]]
  ELSE indexFileWithContent(db, p, fsDisk[p], Size(fsDisk[p]), now, storeNow, failAt)

(***************************************************************************)
(* Scanning and change detection.                                          *)
(***************************************************************************)
\* git ls-files -co --exclude-standard: the tracked files (also those deleted
\* from the work tree) and the untracked ones.
getGitVisibleFiles(fsDisk, fsHead) ==
  {p \in Paths : fsHead[p] # NoFile \/ fsDisk[p] # NoFile}

\* scanDirectory: the git listing in a repository, the filesystem walk
\* otherwise, filtered by the configuration.
scanDirectory(fsDisk, fsHead, git) ==
  LET visible == IF git THEN getGitVisibleFiles(fsDisk, fsHead)
                 ELSE {p \in Paths : fsDisk[p] # NoFile}
  IN  SelectSeq(PathOrder, LAMBDA p : p \in visible /\ shouldIncludeFile(p))

\* getGitChangedFiles: git status --porcelain, split by status code.
getGitChangedFiles(fsDisk, fsHead) ==
  [added |-> SelectSeq(PathOrder, LAMBDA p :
       shouldIncludeFile(p) /\ fsHead[p] = NoFile /\ fsDisk[p] # NoFile),
   deleted |-> SelectSeq(PathOrder, LAMBDA p :
       shouldIncludeFile(p) /\ fsHead[p] # NoFile /\ fsDisk[p] = NoFile),
   modified |-> SelectSeq(PathOrder, LAMBDA p :
       shouldIncludeFile(p) /\ fsHead[p] # NoFile /\ fsDisk[p] # NoFile
       /\ fsHead[p] # fsDisk[p])]

SeqToSet(s) == {s[i] : i \in 1..Len(s)}

RECURSIVE deleteFiles(_, _)
deleteFiles(db, ps) ==
  IF ps = <<>> THEN db ELSE deleteFiles(deleteFile(db, Head(ps)), Tail(ps))

\* The detection phase of sync on the git fast path.
SyncDetectGit(db, fsDisk, fsHead) ==
  LET gitChanges == getGitChangedFiles(fsDisk, fsHead)
      removed == SelectSeq(gitChanges.deleted, LAMBDA p : getFileByPath(db, p).present)
      db1 == deleteFiles(db, removed)
      newMod == SelectSeq(gitChanges.modified, LAMBDA p : ~getFileByPath(db1, p).present)
      chgMod == SelectSeq(gitChanges.modified, LAMBDA p :
                  /\ getFileByPath(db1, p).present
                  /\ getFileByPath(db1, p).contentHash # hashContent(fsDisk[p]))
      toIndexMod == SelectSeq(gitChanges.modified, LAMBDA p :
                      p \in SeqToSet(newMod) \cup SeqToSet(chgMod))
  IN  [db |-> db1,
       filesChecked |-> Len(gitChanges.modified) + Len(gitChanges.added)
                          + Len(gitChanges.deleted),
       filesAdded |-> Len(newMod) + Len(gitChanges.added),
       filesModified |-> Len(chgMod),
       filesRemoved |-> Len(removed),
       filesToIndex |-> toIndexMod \o gitChanges.added]

\* The detection phase of sync on the full-scan fallback.
SyncDetectScan(db, fsDisk, fsHead, git) ==
  LET currentFiles == scanDirectory(fsDisk, fsHead, git)
      removed == SelectSeq(PathOrder, LAMBDA p :
                   db.files[p].present /\ p \notin SeqToSet(currentFiles))
      db1 == deleteFiles(db, removed)
      readable == SelectSeq(currentFiles, LAMBDA p : fsDisk[p] # NoFile)
      newFiles == SelectSeq(readable, LAMBDA p : ~db.files[p].present)
      chgFiles == SelectSeq(readable, LAMBDA p :
                    /\ db.files[p].present
                    /\ db.files[p].contentHash # hashContent(fsDisk[p]))
  IN  [db |-> db1,
       filesChecked |-> Len(currentFiles),
       filesAdded |-> Len(newFiles),
       filesModified |-> Len(chgFiles),
       filesRemoved |-> Len(removed),
       filesToIndex |-> SelectSeq(readable, LAMBDA p :
                          p \in SeqToSet(newFiles) \cup SeqToSet(chgFiles))]

\* getChangedFiles on the git fast path.
getChangedFilesGit(db, fsDisk, fsHead) ==
  LET gitChanges == getGitChangedFiles(fsDisk, fsHead)
      readable == SelectSeq(gitChanges.modified, LAMBDA p : fsDisk[p] # NoFile)
  IN  [added |-> SelectSeq(readable, LAMBDA p : ~getFileByPath(db, p).present)
                   \o gitChanges.added,
       modified |-> SelectSeq(readable, LAMBDA p :
                      /\ getFileByPath(db, p).present
                      /\ getFileByPath(db, p).contentHash # hashContent(fsDisk[p])),
       removed |-> SelectSeq(gitChanges.deleted, LAMBDA p :
                     getFileByPath(db, p).present)]

\* getChangedFiles on the full-scan fallback.
getChangedFilesScan(db, fsDisk, fsHead, git) ==
  LET currentFiles == scanDirectory(fsDisk, fsHead, git)
      readable == SelectSeq(currentFiles, LAMBDA p : fsDisk[p] # NoFile)
  IN  [added |-> SelectSeq(readable, LAMBDA p : ~db.files[p].present),
       modified |-> SelectSeq(readable, LAMBDA p :
                      /\ db.files[p].present
                      /\ db.files[p].contentHash # hashContent(fsDisk[p])),
       removed |-> SelectSeq(PathOrder, LAMBDA p :
                     db.files[p].present /\ p \notin SeqToSet(currentFiles))]

\* getChangedFiles: the fast path when git status succeeds, the fallback
\* otherwise.
getChangedFiles(db, fsDisk, fsHead, git) ==
  IF git THEN getChangedFilesGit(db, fsDisk, fsHead)
  ELSE getChangedFilesScan(db, fsDisk, fsHead, git)

(***************************************************************************)
(* Variable groups of the indexing model.                                  *)
(***************************************************************************)
\* State of the indexing model.
VARIABLES
  disk,      \* work tree: path -> content or NoFile
  head,      \* git HEAD/index: path -> content or NoFile
  gitRepo,   \* whether git commands succeed in the project root
  dbFaults,  \* whether store operations can throw a database error
  db,        \* the graph store
  clock,     \* Date.now()
  pc,        \* position of the running operation
  op,        \* the running operation
  scanned,   \* indexAll: files returned by the scan
  pos,       \* indexAll: number of files processed
  batch,     \* indexAll: contents read for the current batch
  acc,       \* counters and errors of the running operation
  queue,     \* indexFiles: filePaths left; sync: filesToIndex left
  aborted,   \* signal.aborted
  noYield,   \* the operation is inside a synchronous stretch
  result,    \* what the operation returned
  preDb,     \* the file records when the operation was called
  lastRun    \* indexAll has just run to its end, with no change since

\* State of the lock model.
VARIABLES
  lockFile,  \* the lock file: absent, just created and empty, or with content
  alive,     \* the processes that are running
  lpc,       \* per process: position inside acquire or release
  lread,     \* per process: the pid parsed from the lock file
  held,      \* per process: FileLock.held
  lerr,      \* per process: the error acquire threw
  obs        \* per process: what acquire found when it looked at the lock file

lockvars == <<lockFile, alive, lpc, lread, held, lerr, obs>>

\* State of the portable database adapter.
VARIABLES
  sqlite,     \* the engine: visible rows, rows at BEGIN, whether in a transaction
  txn,        \* the last call of a transaction wrapper and how it ended
  stmts,      \* per statement handle: not prepared, open or finalized
  openStmts,  \* WasmDatabaseAdapter._openStmts
  isOpen,     \* this._db.isOpen
  cpc         \* position inside close()

adaptervars == <<sqlite, txn, stmts, openStmts, isOpen, cpc>>

\* State of the extraction model.
VARIABLES
  source,     \* the declarations of the file, in document order
  extracted,  \* ExtractionResult.nodes of the last extraction
  exEdges,    \* ExtractionResult.edges of the last extraction
  exRefs,     \* ExtractionResult.unresolvedReferences of the last extraction
  exNow       \* Date.now() in the last extraction, NoRun when there is none

exvars == <<source, extracted, exEdges, exRefs, exNow>>

\* State of the MCP server's transport.
VARIABLES
  lastLine,   \* the last line read from stdin
  sent        \* the responses written to stdout for it

mcpvars == <<lastLine, sent>>

\* State of one Mutex and of its callers.
VARIABLES
  locked,     \* Mutex.locked
  waitQueue,  \* Mutex.waitQueue: the callers whose resolve function is queued
  mpc,        \* per caller: its position in acquire / withLock
  shared,     \* a counter the callers' functions read and write under the lock
  tmp         \* per caller: the value of the counter its function has read

mutexvars == <<locked, waitQueue, mpc, shared, tmp>>

\* State of one indexAll run as its progress callback sees it.
VARIABLES
  pfiles,        \* the files the scanner returned, in its order
  ppc,           \* position in indexAll
  ppos,          \* i, the start of the current batch
  readsDone,     \* the reads of the current batch that have completed, in that order
  fileContents,  \* the result of Promise.all for the current batch
  pidx,          \* position of the per-file loop in fileContents
  processed,     \* the counter processed
  events         \* the progress events delivered so far

progvars == <<pfiles, ppc, ppos, readsDone, fileContents, pidx, processed, events>>

\* State of the filesystem walk.
VARIABLES
  links,         \* the symbolic links: pairs (directory that holds it, directory it names)
  wpc,           \* position of scanDirectoryWalk
  wstack,        \* the calls of walk that have not returned: real directory, entries left
  visitedDirs,   \* the set visitedDirs
  readdirs       \* per real directory: how often its entries were enumerated

walkvars == <<links, wpc, wstack, visitedDirs, readdirs>>

\* State of the MCP server's default project.
VARIABLES
  cg,            \* MCPServer.cg: 0 for null, or the instance
  defaultCg,     \* the default instance of the ToolHandler, 0 for none
  projectPath,   \* MCPServer.projectPath
  hasRoot,       \* whether a .codegraph folder exists at or above the project path
  opening,       \* the calls of CodeGraph.open that have not resolved
  opened,        \* the default instances opened so far
  closed,        \* the instances closed so far
  stopped        \* stop() has run

srvvars == <<cg, defaultCg, projectPath, hasRoot, opening, opened, closed, stopped>>

\* State of the formatter.
VARIABLES
  subgraph,      \* the subgraph and entry points of the last call, or none
  lines          \* the lines formatSubgraphTree wrote

fmtvars == <<subgraph, lines>>

\* The variables of the models above: no step of an earlier model changes them.
latervars == <<progvars, walkvars, srvvars, fmtvars>>

\* The configuration and the symbolic links: fixed while the program runs.
envvars == <<config, linked>>

\* The variables no step of indexAll, indexFiles or sync changes.
outsideIndex == <<lockvars, envvars, adaptervars, exvars, mcpvars, mutexvars, latervars>>

ixvars == <<disk, head, gitRepo, dbFaults, db, clock, pc, op, scanned, pos, batch, acc,
            queue, aborted, noYield, result, preDb, lastRun>>

\* The variables no step of FileLock changes.
outsideLock == <<ixvars, envvars, adaptervars, exvars, mcpvars, mutexvars, latervars>>

\* The variables no step of the database adapter changes.
outsideAdapter == <<ixvars, lockvars, envvars, exvars, mcpvars, mutexvars, latervars>>

\* The variables no step of the extraction model changes.
outsideExtract == <<ixvars, lockvars, envvars, adaptervars, mcpvars, mutexvars, latervars>>

\* The variables no step of the MCP server changes.
outsideMcp == <<ixvars, lockvars, envvars, adaptervars, exvars, mutexvars, latervars>>

\* The variables of the models declared before the progress model.
earliervars == <<ixvars, lockvars, envvars, adaptervars, exvars, mcpvars, mutexvars>>

\* The variables no step of the progress model, of the walk, of the server's
\* default project and of the formatter changes.
outsideProg == <<earliervars, walkvars, srvvars, fmtvars>>
outsideWalk == <<earliervars, progvars, srvvars, fmtvars>>
outsideSrv == <<earliervars, progvars, walkvars, fmtvars>>
outsideFmt == <<earliervars, progvars, walkvars, srvvars>>

\* The variables no step of the Mutex changes.
outsideMutex == <<ixvars, lockvars, envvars, adaptervars, exvars, mcpvars, latervars>>

\* Date.now() in the next operation: later than in the one that returned, up
\* to the bound.
Tick(t) == IF t < MaxClock THEN t + 1 ELSE t

NoResult == [kind |-> "none"]
Thrown == [kind |-> "thrown"]
ZeroAcc == [filesIndexed |-> 0, filesSkipped |-> 0, totalNodes |-> 0,
            totalEdges |-> 0, errors |-> <<>>]
NoBatch == [p \in Paths |-> NoFile]

\* The store operation that throws in one call of storeExtractionResult.
Faults == IF dbFaults THEN FailPoints ELSE {"none"}

IndexState(git, faults) ==
  /\ disk = EmptyDisk
  /\ head = disk
  /\ gitRepo = git
  /\ dbFaults = faults
  /\ db = EmptyDb
  /\ clock = 0
  /\ pc = "idle"
  /\ op = "none"
  /\ scanned = <<>>
  /\ pos = 0
  /\ batch = NoBatch
  /\ acc = ZeroAcc
  /\ queue = <<>>
  /\ aborted = FALSE
  /\ noYield = FALSE
  /\ result = NoResult
  /\ preDb = EmptyDb.files
  /\ lastRun = FALSE

\* The default configuration and no symbolic link.
IndexStart(git, faults) ==
  /\ IndexState(git, faults)
  /\ config = DefaultConfig
  /\ linked = {}

\* An empty project and an empty store, in a git repository or not; the
\* database does not fail.
IndexInit == \E git \in BOOLEAN : IndexStart(git, FALSE)

runvars == <<op, scanned, pos, batch, acc, queue, aborted, noYield, result,
             preDb>>

(***************************************************************************)
(* The environment: edits of the work tree and commits, between runs.      *)
(***************************************************************************)
FsWrite(p, c) ==
  /\ UNCHANGED outsideIndex
  /\ pc = "idle"
  /\ c \in PathContents(p)
  /\ disk[p] # c
  /\ disk' = [disk EXCEPT ![p] = c]
  /\ lastRun' = FALSE
  /\ UNCHANGED <<head, gitRepo, dbFaults, db, clock, pc, runvars>>

FsDelete(p) ==
  /\ UNCHANGED outsideIndex
  /\ pc = "idle"
  /\ disk[p] # NoFile
  /\ disk' = [disk EXCEPT ![p] = NoFile]
  /\ lastRun' = FALSE
  /\ UNCHANGED <<head, gitRepo, dbFaults, db, clock, pc, runvars>>

\* git add -A; git commit
GitCommit ==
  /\ UNCHANGED outsideIndex
  /\ pc = "idle"
  /\ gitRepo
  /\ head # disk
  /\ head' = disk
  /\ lastRun' = FALSE
  /\ UNCHANGED <<disk, gitRepo, dbFaults, db, clock, pc, runvars>>

\* The caller aborts the signal while indexAll is suspended.
Abort ==
  /\ UNCHANGED outsideIndex
  /\ op = "indexAll"
  /\ pc \in {"init", "batchHead", "reading", "file"}
  /\ ~noYield
  /\ ~aborted
  /\ aborted' = TRUE
  /\ UNCHANGED <<disk, head, gitRepo, dbFaults, db, clock, pc, op, scanned, pos, batch, acc,
                 queue, noYield, result, preDb, lastRun>>

(***************************************************************************)
(* indexAll.                                                               *)
(***************************************************************************)
\* A result that drops the counts accumulated before the abort.
AbortedResultZero(a) ==
  [kind |-> "index", success |-> FALSE, filesIndexed |-> 0,
   filesSkipped |-> 0, nodesCreated |-> 0, edgesCreated |-> 0,
   errors |-> <<Err("Aborted", "error")>> \o a.errors]

AbortedResult(a) ==
  [kind |-> "index", success |-> FALSE, filesIndexed |-> a.filesIndexed,
   filesSkipped |-> a.filesSkipped, nodesCreated |-> a.totalNodes,
   edgesCreated |-> a.totalEdges,
   errors |-> <<Err("Aborted", "error")>> \o a.errors]

IndexResult(a) ==
  [kind |-> "index",
   success |-> \A i \in 1..Len(a.errors) : a.errors[i].severity # "error",
   filesIndexed |-> a.filesIndexed, filesSkipped |-> a.filesSkipped,
   nodesCreated |-> a.totalNodes, edgesCreated |-> a.totalEdges,
   errors |-> a.errors]

IndexAllCall ==
  /\ UNCHANGED outsideIndex
  /\ pc = "idle"
  /\ pc' = "init"
  /\ op' = "indexAll"
  /\ aborted' \in BOOLEAN
  /\ acc' = ZeroAcc
  /\ preDb' = db.files
  /\ result' = NoResult
  /\ UNCHANGED <<disk, head, gitRepo, dbFaults, db, clock, scanned, pos, batch, queue,
                 noYield, lastRun>>

\* The scan and the check of the signal that follows it.
IndexAllScan ==
  /\ UNCHANGED outsideIndex
  /\ pc = "init"
  /\ op = "indexAll"
  /\ scanned' = scanDirectory(disk, head, gitRepo)
  /\ pos' = 0
  /\ IF aborted
       THEN /\ result' = AbortedResult(ZeroAcc)
            /\ pc' = "done"
            /\ noYield' = FALSE
       ELSE /\ result' = result
            /\ pc' = "batchHead"
            /\ noYield' = TRUE
  /\ UNCHANGED <<disk, head, gitRepo, dbFaults, db, clock, op, batch, acc, queue, aborted,
                 preDb, lastRun>>

\* The head of the batch loop: leave the loop, return on abort, or issue the
\* reads of the next batch.
IndexAllBatchHead ==
  /\ UNCHANGED outsideIndex
  /\ pc = "batchHead"
  /\ IF pos >= Len(scanned)
       THEN /\ result' = IndexResult(acc)
            /\ pc' = "done"
       ELSE IF aborted
       THEN /\ result' = AbortedResult(acc)
            /\ pc' = "done"
       ELSE /\ result' = result
            /\ pc' = "reading"
  /\ noYield' = FALSE
  /\ UNCHANGED <<disk, head, gitRepo, dbFaults, db, clock, op, scanned, pos, batch, acc,
                 queue, aborted, preDb, lastRun>>

Min(a, b) == IF a < b THEN a ELSE b

\* The reads of one batch complete.
IndexAllRead ==
  /\ UNCHANGED outsideIndex
  /\ pc = "reading"
  /\ batch' = [p \in Paths |->
                 IF \E i \in (pos + 1)..Min(pos + FILE_IO_BATCH_SIZE, Len(scanned)) :
                      scanned[i] = p
                   THEN IF validatePathWithinRoot(p) THEN disk[p] ELSE NoFile
                   ELSE NoFile]
  /\ pc' = "file"
  /\ UNCHANGED <<disk, head, gitRepo, dbFaults, db, clock, op, scanned, pos, acc, queue,
                 aborted, noYield, result, preDb, lastRun>>

\* The accumulation of one file's result in indexAll.
AccumulateAll(a, r) ==
  [filesIndexed |-> a.filesIndexed + (IF r.nodes # {} THEN 1 ELSE 0),
   filesSkipped |-> a.filesSkipped
                      + (IF r.nodes = {} /\ Len(r.errors) = 0 THEN 1 ELSE 0),
   totalNodes |-> a.totalNodes + Cardinality(r.nodes),
   totalEdges |-> a.totalEdges + Cardinality(r.edges),
   errors |-> a.errors \o r.errors]

NextPc(n) ==
  IF n >= Len(scanned) \/ n % FILE_IO_BATCH_SIZE = 0 THEN "batchHead" ELSE "file"

\* One turn of the per-file loop: return on abort, record a failed read, or
\* extract and store the file.
IndexAllFile ==
  /\ UNCHANGED outsideIndex
  /\ pc = "file"
  /\ LET p == scanned[pos + 1] IN
     IF aborted
       THEN /\ result' = AbortedResult(acc)
            /\ pc' = "done"
            /\ noYield' = FALSE
            /\ UNCHANGED <<db, pos, acc>>
     ELSE IF batch[p] = NoFile
       THEN /\ acc' = [acc EXCEPT !.errors = @ \o <<Err("Failed to read file", "error")>>]
            /\ pos' = pos + 1
            /\ pc' = NextPc(pos + 1)
            /\ noYield' = TRUE
            /\ UNCHANGED <<db, result>>
     ELSE \E failAt \in Faults :
            /\ LET r == indexFileWithContent(db, p, batch[p], Size(batch[p]),
                                             clock, clock, failAt)
               IN  /\ db' = r.db
                   /\ IF r.thrown
                        THEN /\ result' = Thrown
                             /\ pc' = "done"
                             /\ UNCHANGED <<pos, acc>>
                        ELSE /\ acc' = AccumulateAll(acc, r.result)
                             /\ pos' = pos + 1
                             /\ pc' = NextPc(pos + 1)
                             /\ result' = result
            /\ noYield' = FALSE
  /\ UNCHANGED <<disk, head, gitRepo, dbFaults, clock, op, scanned, batch, queue, aborted,
                 preDb, lastRun>>


(***************************************************************************)
(* indexFiles.                                                             *)
(***************************************************************************)
\* The path lists indexFiles is called with: the non-empty sublists of
\* PathOrder.
FileLists ==
  {SelectSeq(PathOrder, LAMBDA p : p \in S) : S \in (SUBSET Paths) \ {{}}}

\* The accumulation of one file's result in indexFiles.
AccumulateFiles(a, r) ==
  [filesIndexed |-> a.filesIndexed + (IF r.nodes # {} THEN 1 ELSE 0),
   filesSkipped |-> a.filesSkipped + (IF r.nodes = {} THEN 1 ELSE 0),
   totalNodes |-> a.totalNodes + Cardinality(r.nodes),
   totalEdges |-> a.totalEdges + Cardinality(r.edges),
   errors |-> a.errors \o r.errors]

IndexFilesCall ==
  /\ UNCHANGED outsideIndex
  /\ pc = "idle"
  /\ \E l \in FileLists : queue' = l
  /\ pc' = "xindex"
  /\ op' = "indexFiles"
  /\ acc' = ZeroAcc
  /\ preDb' = db.files
  /\ result' = NoResult
  /\ aborted' = FALSE
  /\ UNCHANGED <<disk, head, gitRepo, dbFaults, db, clock, scanned, pos, batch, noYield,
                 lastRun>>

\* One turn of the loop of indexFiles, or its return.
IndexFilesStep ==
  /\ UNCHANGED outsideIndex
  /\ pc = "xindex"
  /\ IF queue = <<>>
       THEN /\ result' = IndexResult(acc)
            /\ pc' = "done"
            /\ UNCHANGED <<db, acc, queue>>
       ELSE \E failAt \in Faults :
              /\ LET p == Head(queue)
                     r == indexFile(db, disk, p, clock, clock, failAt)
                 IN  /\ db' = r.db
                       /\ IF r.thrown
                          THEN /\ result' = Thrown
                               /\ pc' = "done"
                               /\ UNCHANGED <<acc, queue>>
                          ELSE /\ acc' = AccumulateFiles(acc, r.result)
                               /\ queue' = Tail(queue)
                               /\ pc' = pc
                               /\ result' = result
  /\ UNCHANGED <<disk, head, gitRepo, dbFaults, clock, op, scanned, pos, batch, aborted,
                 noYield, preDb, lastRun>>

(***************************************************************************)
(* sync.                                                                   *)
(***************************************************************************)
SyncCall ==
  /\ UNCHANGED outsideIndex
  /\ pc = "idle"
  /\ pc' = "sinit"
  /\ op' = "sync"
  /\ preDb' = db.files
  /\ result' = NoResult
  /\ aborted' = FALSE
  /\ UNCHANGED <<disk, head, gitRepo, dbFaults, db, clock, scanned, pos, batch, acc, queue,
                 noYield, lastRun>>

\* The detection phase: git status or full scan, removal of the records of
\* deleted files, and the list of files to index.
SyncDetect ==
  /\ UNCHANGED outsideIndex
  /\ pc = "sinit"
  /\ LET det == IF gitRepo THEN SyncDetectGit(db, disk, head)
                ELSE SyncDetectScan(db, disk, head, gitRepo)
     IN  /\ db' = det.db
         /\ queue' = det.filesToIndex
         /\ acc' = [filesChecked |-> det.filesChecked,
                    filesAdded |-> det.filesAdded,
                    filesModified |-> det.filesModified,
                    filesRemoved |-> det.filesRemoved,
                    nodesUpdated |-> 0,
                    changedFilePaths |-> det.filesToIndex]
  /\ pc' = "sindex"
  /\ UNCHANGED <<disk, head, gitRepo, dbFaults, clock, op, scanned, pos, batch, aborted,
                 noYield, result, preDb, lastRun>>

SyncResult(a) == [kind |-> "sync"] @@ a

\* One turn of the indexing loop of sync, or its return.
SyncStep ==
  /\ UNCHANGED outsideIndex
  /\ pc = "sindex"
  /\ IF queue = <<>>
       THEN /\ result' = SyncResult(acc)
            /\ pc' = "done"
            /\ UNCHANGED <<db, acc, queue>>
       ELSE \E failAt \in Faults :
              /\ LET p == Head(queue)
                     r == indexFile(db, disk, p, clock, clock, failAt)
                 IN  /\ db' = r.db
                       /\ IF r.thrown
                          THEN /\ result' = Thrown
                               /\ pc' = "done"
                               /\ UNCHANGED <<acc, queue>>
                          ELSE /\ acc' = [acc EXCEPT !.nodesUpdated =
                                            @ + Cardinality(r.result.nodes)]
                               /\ queue' = Tail(queue)
                               /\ pc' = pc
                               /\ result' = result
  /\ UNCHANGED <<disk, head, gitRepo, dbFaults, clock, op, scanned, pos, batch, aborted,
                 noYield, preDb, lastRun>>

(***************************************************************************)
(* The caller takes the result; the next operation may start.              *)
(***************************************************************************)
\* indexAll has run to its end: it neither threw nor returned on abort.
IndexAllCompleted ==
  /\ op = "indexAll"
  /\ result.kind = "index"
  /\ ~(Len(result.errors) > 0 /\ result.errors[1].message = "Aborted")

Return ==
  /\ UNCHANGED outsideIndex
  /\ pc = "done"
  /\ pc' = "idle"
  /\ lastRun' = IndexAllCompleted
  /\ op' = "none"
  /\ scanned' = <<>>
  /\ pos' = 0
  /\ batch' = NoBatch
  /\ acc' = ZeroAcc
  /\ queue' = <<>>
  /\ aborted' = FALSE
  /\ noYield' = FALSE
  /\ result' = NoResult
  /\ preDb' = EmptyDb.files
  /\ clock' = Tick(clock)
  /\ UNCHANGED <<disk, head, gitRepo, dbFaults, db>>

IndexNext ==
  \/ \E p \in Paths, c \in 1..4 : FsWrite(p, c)
  \/ \E p \in Paths : FsDelete(p)
  \/ GitCommit
  \/ Abort
  \/ IndexAllCall
  \/ IndexAllScan
  \/ IndexAllBatchHead
  \/ IndexAllRead
  \/ IndexAllFile
  \/ IndexFilesCall
  \/ IndexFilesStep
  \/ SyncCall
  \/ SyncDetect
  \/ SyncStep
  \/ Return


TypeOK ==
  /\ pc \in {"idle", "init", "batchHead", "reading", "file", "xindex", "sinit",
             "sindex", "done"}
  /\ clock \in 0..MaxClock


\* The same system when the database can fail (a full disk, a constraint, a
\* busy file) in a project that is not a git repository.
FaultsInit == IndexStart(FALSE, TRUE)

FaultsNext ==
  \/ \E p \in Paths, c \in 1..4 : FsWrite(p, c)
  \/ \E p \in Paths : FsDelete(p)
  \/ Abort
  \/ IndexAllCall
  \/ IndexAllScan
  \/ IndexAllBatchHead
  \/ IndexAllRead
  \/ IndexAllFile
  \/ IndexFilesCall
  \/ IndexFilesStep
  \/ SyncCall
  \/ SyncDetect
  \/ SyncStep
  \/ Return


(***************************************************************************)
(* Whole runs: each operation from call to return as one step, for the     *)
(* properties that relate what an operation is given to what it returns.   *)
(* Nothing else runs between the call and the return of an operation: the  *)
(* work tree changes between runs only, and no signal aborts.              *)
(***************************************************************************)
\* indexFiles: the loop over filePaths.
RECURSIVE indexFilesLoop(_, _, _, _, _)
indexFilesLoop(d, fs, files, now, a) ==
  IF files = <<>> THEN [db |-> d, acc |-> a]
  ELSE LET r == indexFile(d, fs, Head(files), now, now, "none")
       IN  indexFilesLoop(r.db, fs, Tail(files), now, AccumulateFiles(a, r.result))

\* The loop of indexAll leaving at the first file that cannot be read.
RECURSIVE indexAllStop(_, _, _, _, _)
indexAllStop(d, fs, files, now, a) ==
  IF files = <<>> THEN [db |-> d, acc |-> a]
  ELSE LET p == Head(files)
           content == IF validatePathWithinRoot(p) THEN fs[p] ELSE NoFile
       IN  IF content = NoFile
             THEN [db |-> d,
                   acc |-> [a EXCEPT !.errors = @ \o <<Err("Failed to read file", "error")>>]]
             ELSE LET r == indexFileWithContent(d, p, content, Size(content),
                                                now, now, "none")
                  IN  indexAllStop(r.db, fs, Tail(files), now,
                                   AccumulateAll(a, r.result))

\* indexAll: the batch reader and the per-file loop over the scanned files.
RECURSIVE indexAllLoop(_, _, _, _, _)
indexAllLoop(d, fs, files, now, a) ==
  IF files = <<>> THEN [db |-> d, acc |-> a]
  ELSE LET p == Head(files)
           content == IF validatePathWithinRoot(p) THEN fs[p] ELSE NoFile
       IN  IF content = NoFile
             THEN indexAllLoop(d, fs, Tail(files), now,
                    [a EXCEPT !.errors = @ \o <<Err("Failed to read file", "error")>>])
             ELSE LET r == indexFileWithContent(d, p, content, Size(content),
                                                now, now, "none")
                  IN  indexAllLoop(r.db, fs, Tail(files), now,
                                   AccumulateAll(a, r.result))

\* sync: the loop over filesToIndex.
RECURSIVE syncLoop(_, _, _, _, _)
syncLoop(d, fs, files, now, a) ==
  IF files = <<>> THEN [db |-> d, acc |-> a]
  ELSE LET r == indexFile(d, fs, Head(files), now, now, "none")
       IN  syncLoop(r.db, fs, Tail(files), now,
                    [a EXCEPT !.nodesUpdated = @ + Cardinality(r.result.nodes)])

\* sync from call to return: detection on the git fast path or on the
\* full-scan fallback, then the loop over filesToIndex.
syncRun(d, fs, hd, git, now) ==
  LET det == IF git THEN SyncDetectGit(d, fs, hd)
             ELSE SyncDetectScan(d, fs, hd, git)
      r == syncLoop(det.db, fs, det.filesToIndex, now,
                    [filesChecked |-> det.filesChecked,
                     filesAdded |-> det.filesAdded,
                     filesModified |-> det.filesModified,
                     filesRemoved |-> det.filesRemoved,
                     nodesUpdated |-> 0,
                     changedFilePaths |-> det.filesToIndex])
  IN  [db |-> r.db, result |-> SyncResult(r.acc)]

\* The path lists indexFiles is called with in whole runs: one path, in the
\* project or leaving the root; two project files; a path that leaves the
\* root followed by a project file.
ArgLists ==
  {<<p>> : p \in AllPaths} \cup {<<"a.ts", "b.ts">>, <<"../x.ts", "a.ts">>}

RunIndexFiles ==
  /\ UNCHANGED outsideIndex
  /\ pc = "idle"
  /\ \E l \in ArgLists :
       LET r == indexFilesLoop(db, disk, l, clock, ZeroAcc)
       IN  /\ db' = r.db
           /\ result' = IndexResult(r.acc)
           /\ queue' = l
  /\ pc' = "done"
  /\ op' = "indexFiles"
  /\ preDb' = db.files
  /\ UNCHANGED <<disk, head, gitRepo, dbFaults, clock, scanned, pos, batch, acc, aborted,
                 noYield, lastRun>>

RunIndexAll ==
  /\ UNCHANGED outsideIndex
  /\ pc = "idle"
  /\ LET files == scanDirectory(disk, head, gitRepo)
         r == indexAllLoop(db, disk, files, clock, ZeroAcc)
     IN  /\ db' = r.db
         /\ result' = IndexResult(r.acc)
         /\ scanned' = files
         /\ pos' = Len(files)
  /\ pc' = "done"
  /\ op' = "indexAll"
  /\ preDb' = db.files
  /\ UNCHANGED <<disk, head, gitRepo, dbFaults, clock, batch, acc, queue, aborted,
                 noYield, lastRun>>

RunSync ==
  /\ UNCHANGED outsideIndex
  /\ pc = "idle"
  /\ LET det == IF gitRepo THEN SyncDetectGit(db, disk, head)
                ELSE SyncDetectScan(db, disk, head, gitRepo)
         r == syncLoop(det.db, disk, det.filesToIndex, clock,
                       [filesChecked |-> det.filesChecked,
                        filesAdded |-> det.filesAdded,
                        filesModified |-> det.filesModified,
                        filesRemoved |-> det.filesRemoved,
                        nodesUpdated |-> 0,
                        changedFilePaths |-> det.filesToIndex])
     IN  /\ db' = r.db
         /\ result' = SyncResult(r.acc)
  /\ pc' = "done"
  /\ op' = "sync"
  /\ preDb' = db.files
  /\ UNCHANGED <<disk, head, gitRepo, dbFaults, clock, scanned, pos, batch, acc, queue,
                 aborted, noYield, lastRun>>

RunGetChangedFiles ==
  /\ UNCHANGED outsideIndex
  /\ pc = "idle"
  /\ result' = [kind |-> "changes"] @@ getChangedFiles(db, disk, head, gitRepo)
  /\ pc' = "done"
  /\ op' = "getChangedFiles"
  /\ preDb' = db.files
  /\ UNCHANGED <<disk, head, gitRepo, dbFaults, db, clock, scanned, pos, batch, acc,
                 queue, aborted, noYield, lastRun>>

\* The configurations of whole runs: the default one; one that excludes a
\* file the include pattern matches; one whose include patterns name two
\* files, one of them excluded.
Configs ==
  {DefaultConfig,
   [include |-> {"**/*.ts"}, exclude |-> {"b.ts"}],
   [include |-> {"a.ts", "b.ts"}, exclude |-> {"b.ts"}]}

\* An empty project and an empty store; outside a git repository c.ts may be
\* a symbolic link to a file outside the root.
RunsInit ==
  /\ \E git \in BOOLEAN : IndexState(git, FALSE)
  /\ config \in Configs
  /\ linked \in {{}, {"c.ts"}}
  /\ linked # {} => ~gitRepo /\ config = DefaultConfig

RunsNext ==
  \/ \E p \in Paths, c \in 1..4 : FsWrite(p, c)
  \/ \E p \in Paths : FsDelete(p)
  \/ GitCommit
  \/ RunIndexFiles
  \/ RunIndexAll
  \/ RunSync
  \/ RunGetChangedFiles
  \/ Return

(***************************************************************************)
(* FileLock: a lock file that holds the pid of the process that wrote it.  *)
(***************************************************************************)
Procs == 1..NumProcs
\* The pid of a process that exited before any of Procs started.
OldPid == NumProcs + 1

lockPath == ".codegraph/codegraph.lock"

NoLock == [state |-> "none", pid |-> 0]
\* The file right after the exclusive create of process p, before the write.
EmptyLock(p) == [state |-> "empty", pid |-> p]
PidLock(p) == [state |-> "pid", pid |-> p]
GarbageLock == [state |-> "garbage", pid |-> 0]

\* parseInt(content, 10): the pid, or NaN for an empty or corrupt file.
NaN == 0
parseInt(f) == IF f.state = "pid" THEN f.pid ELSE NaN
isNaN(n) == n = NaN

\* process.kill(pid, 0) succeeds exactly for a running process.
\* A check that takes every process for dead.
isProcessAliveNever(pid, running) == FALSE

isProcessAlive(pid, running) == pid \in running

LockedByPid(pid) ==
  <<"CodeGraph database is locked by another process (PID ", ToString(pid),
    "). If this is stale, delete ", lockPath>>
LockedRace ==
  <<"CodeGraph database is locked by another process. ",
    "If this is stale, delete ", lockPath>>
NoError == <<>>

LockInit ==
  /\ lockFile \in {NoLock, GarbageLock, PidLock(OldPid)}
  /\ alive = Procs
  /\ lpc = [p \in Procs |-> "idle"]
  /\ lread = [p \in Procs |-> NaN]
  /\ held = [p \in Procs |-> FALSE]
  /\ lerr = [p \in Procs |-> NoError]
  /\ obs = [p \in Procs |-> "none"]

\* No process uses the lock.
LockQuiet ==
  /\ lockFile = NoLock
  /\ alive = {}
  /\ lpc = [p \in Procs |-> "idle"]
  /\ lread = [p \in Procs |-> NaN]
  /\ held = [p \in Procs |-> FALSE]
  /\ lerr = [p \in Procs |-> NoError]
  /\ obs = [p \in Procs |-> "none"]

\* acquire() is called.
AcquireCall(p) ==
  /\ p \in alive
  /\ lpc[p] \in {"idle", "failed"}
  /\ lpc' = [lpc EXCEPT ![p] = "exists"]
  /\ lerr' = [lerr EXCEPT ![p] = NoError]
  /\ obs' = [obs EXCEPT ![p] = "none"]
  /\ lread' = [lread EXCEPT ![p] = NaN]
  /\ UNCHANGED <<lockFile, alive, held, outsideLock>>

\* fs.existsSync(lockPath)
AcquireExists(p) ==
  /\ p \in alive
  /\ lpc[p] = "exists"
  /\ IF lockFile.state = "none"
       THEN /\ lpc' = [lpc EXCEPT ![p] = "create"]
            /\ obs' = [obs EXCEPT ![p] = "absent"]
       ELSE /\ lpc' = [lpc EXCEPT ![p] = "read"]
            /\ obs' = obs
  /\ UNCHANGED <<lockFile, alive, lread, held, lerr, outsideLock>>

\* fs.readFileSync(lockPath) and parseInt; a read that fails goes to the
\* catch block.
AcquireRead(p) ==
  /\ p \in alive
  /\ lpc[p] = "read"
  /\ IF lockFile.state = "none"
       THEN /\ lpc' = [lpc EXCEPT ![p] = "catchUnlink"]
            /\ UNCHANGED <<lread, obs>>
       ELSE /\ lread' = [lread EXCEPT ![p] = parseInt(lockFile)]
            /\ IF isNaN(parseInt(lockFile))
                 THEN /\ lpc' = [lpc EXCEPT ![p] = "unlink"]
                      /\ obs' = [obs EXCEPT ![p] = "stale"]
                 ELSE /\ lpc' = [lpc EXCEPT ![p] = "kill"]
                      /\ obs' = obs
  /\ UNCHANGED <<lockFile, alive, held, lerr, outsideLock>>

\* isProcessAlive(pid): a live owner makes acquire throw.
AcquireKill(p) ==
  /\ p \in alive
  /\ lpc[p] = "kill"
  /\ obs' = [obs EXCEPT ![p] = IF lread[p] \in alive THEN "alive" ELSE "stale"]
  /\ IF isProcessAlive(lread[p], alive)
       THEN /\ lerr' = [lerr EXCEPT ![p] = LockedByPid(lread[p])]
            /\ lpc' = [lpc EXCEPT ![p] = "failed"]
       ELSE /\ lerr' = lerr
            /\ lpc' = [lpc EXCEPT ![p] = "unlink"]
  /\ UNCHANGED <<lockFile, alive, lread, held, outsideLock>>

\* fs.unlinkSync(lockPath) of the stale lock; ENOENT goes to the catch block.
AcquireUnlink(p) ==
  /\ p \in alive
  /\ lpc[p] = "unlink"
  /\ IF lockFile.state = "none"
       THEN /\ lpc' = [lpc EXCEPT ![p] = "catchUnlink"]
            /\ lockFile' = lockFile
       ELSE /\ lpc' = [lpc EXCEPT ![p] = "create"]
            /\ lockFile' = NoLock
  /\ UNCHANGED <<alive, lread, held, lerr, obs, outsideLock>>

\* The catch block: try { fs.unlinkSync(lockPath) } catch { ignore }
AcquireCatchUnlink(p) ==
  /\ p \in alive
  /\ lpc[p] = "catchUnlink"
  /\ lockFile' = NoLock
  /\ lpc' = [lpc EXCEPT ![p] = "create"]
  /\ UNCHANGED <<alive, lread, held, lerr, obs, outsideLock>>

\* writeFileSync(..., {flag: 'wx'}): the exclusive create; EEXIST makes
\* acquire throw.
AcquireCreate(p) ==
  /\ p \in alive
  /\ lpc[p] = "create"
  /\ IF lockFile.state # "none"
       THEN /\ lerr' = [lerr EXCEPT ![p] = LockedRace]
            /\ lpc' = [lpc EXCEPT ![p] = "failed"]
            /\ lockFile' = lockFile
       ELSE /\ lerr' = lerr
            /\ lpc' = [lpc EXCEPT ![p] = "fill"]
            /\ lockFile' = EmptyLock(p)
  /\ UNCHANGED <<alive, lread, held, obs, outsideLock>>

\* writeFileSync: the write of the pid into the created file (a file that has
\* been unlinked meanwhile is written without effect on lockPath), then
\* held = true.
AcquireFill(p) ==
  /\ p \in alive
  /\ lpc[p] = "fill"
  /\ lockFile' = IF lockFile = EmptyLock(p) THEN PidLock(p) ELSE lockFile
  /\ held' = [held EXCEPT ![p] = TRUE]
  /\ lpc' = [lpc EXCEPT ![p] = "held"]
  /\ UNCHANGED <<alive, lread, lerr, obs, outsideLock>>

\* release(): read the lock file and compare the pid.
ReleaseRead(p) ==
  /\ p \in alive
  /\ lpc[p] = "held"
  /\ held[p]
  /\ IF lockFile.state # "none" /\ parseInt(lockFile) = p
       THEN /\ lpc' = [lpc EXCEPT ![p] = "releaseUnlink"]
            /\ held' = held
       ELSE /\ lpc' = [lpc EXCEPT ![p] = "idle"]
            /\ held' = [held EXCEPT ![p] = FALSE]
  /\ UNCHANGED <<lockFile, alive, lread, lerr, obs, outsideLock>>

\* release(): fs.unlinkSync(lockPath), then held = false.
ReleaseUnlink(p) ==
  /\ p \in alive
  /\ lpc[p] = "releaseUnlink"
  /\ lockFile' = NoLock
  /\ held' = [held EXCEPT ![p] = FALSE]
  /\ lpc' = [lpc EXCEPT ![p] = "idle"]
  /\ UNCHANGED <<alive, lread, lerr, obs, outsideLock>>

\* The process exits without releasing; its lock file stays behind.
Crash(p) ==
  /\ p \in alive
  /\ alive' = alive \ {p}
  /\ lpc' = [lpc EXCEPT ![p] = "dead"]
  /\ held' = [held EXCEPT ![p] = FALSE]
  /\ UNCHANGED <<lockFile, lread, lerr, obs, outsideLock>>

LockNext ==
  \E p \in Procs :
    \/ AcquireCall(p)
    \/ AcquireExists(p)
    \/ AcquireRead(p)
    \/ AcquireKill(p)
    \/ AcquireUnlink(p)
    \/ AcquireCatchUnlink(p)
    \/ AcquireCreate(p)
    \/ AcquireFill(p)
    \/ ReleaseRead(p)
    \/ ReleaseUnlink(p)
    \/ Crash(p)

(***************************************************************************)
(* The portable database adapter (WasmDatabaseAdapter) over the SQLite     *)
(* engine: transaction wrappers, prepared statements and close.            *)
(***************************************************************************)
\* Statement handles, and the longest body of a transaction function.
MaxStmts == 2
MaxOps == 2

StmtIds == 1..MaxStmts

EngineStart == [rows |-> {}, snap |-> {}, inTxn |-> FALSE]

\* this._db.exec('BEGIN'): an error inside a transaction.
execBegin(e) ==
  IF e.inTxn
    THEN [eng |-> e, err |-> "cannot start a transaction within a transaction"]
  ELSE [eng |-> [e EXCEPT !.inTxn = TRUE, !.snap = e.rows], err |-> "none"]

\* this._db.exec('COMMIT'): an error outside a transaction.
execCommit(e) ==
  IF ~e.inTxn
    THEN [eng |-> e, err |-> "cannot commit - no transaction is active"]
  ELSE [eng |-> [e EXCEPT !.inTxn = FALSE], err |-> "none"]

\* this._db.exec('ROLLBACK'): an error outside a transaction.
execRollback(e) ==
  IF ~e.inTxn
    THEN [eng |-> e, err |-> "cannot rollback - no transaction is active"]
  ELSE [eng |-> [e EXCEPT !.inTxn = FALSE, !.rows = e.snap], err |-> "none"]

\* stmt.run of an INSERT of row v.
stmtRun(e, v) == [e EXCEPT !.rows = @ \cup {v}]

\* stmt.run that fails with SQLITE_FULL: the engine has rolled the open
\* transaction back by itself when the error is thrown.
stmtRunFull(e) ==
  IF e.inTxn THEN [e EXCEPT !.inTxn = FALSE, !.rows = e.snap] ELSE e

\* What the function passed to transaction() does, step by step: insert a
\* row; throw; run a statement that fails with SQLITE_FULL (uncaught, or
\* caught by the function); call another transaction wrapper (uncaught, or
\* inside try/catch).
FnOps == {"insert1", "insert2", "throw", "full", "tryFull", "nested", "tryNested"}

RECURSIVE FnBodies(_)
FnBodies(n) ==
  IF n = 0 THEN {<<>>}
  ELSE FnBodies(n - 1)
         \cup {Append(b, o) : b \in {c \in FnBodies(n - 1) : Len(c) = n - 1}, o \in FnOps}

\* The function of the wrapper that a function calls.
InnerFn == <<"insert2">>

RowOf(o) == IF o = "insert1" THEN 1 ELSE 2

RECURSIVE runFn(_, _, _)
RECURSIVE transaction(_, _)

\* fn(...args): the engine after the function, the error it threw ("none"
\* when it returned) and the rows it inserted.
runFn(body, e, wrote) ==
  IF body = <<>> THEN [eng |-> e, err |-> "none", wrote |-> wrote]
  ELSE LET o == Head(body)
       IN  CASE o \in {"insert1", "insert2"} ->
                  runFn(Tail(body), stmtRun(e, RowOf(o)), wrote \cup {RowOf(o)})
             [] o = "throw" ->
                  [eng |-> e, err |-> "Error", wrote |-> wrote]
             [] o = "full" ->
                  [eng |-> stmtRunFull(e), err |-> "database or disk is full",
                   wrote |-> wrote]
             [] o = "tryFull" ->
                  runFn(Tail(body), stmtRunFull(e), wrote)
             [] o = "nested" ->
                  LET r == transaction(InnerFn, e)
                  IN  IF r.err # "none"
                        THEN [eng |-> r.eng, err |-> r.err, wrote |-> wrote \cup r.wrote]
                      ELSE runFn(Tail(body), r.eng, wrote \cup r.wrote)
             [] o = "tryNested" ->
                  LET r == transaction(InnerFn, e)
                  IN  runFn(Tail(body), r.eng, wrote \cup r.wrote)

\* The wrapper transaction(fn) returns: BEGIN, then fn and COMMIT inside
\* try, ROLLBACK and rethrow in catch.  err is what the wrapper throws
\* ("none" when it returns), fnErr what fn threw ("not called" when BEGIN
\* threw).
transaction(body, e) ==
  LET b == execBegin(e)
  IN  IF b.err # "none"
        THEN [eng |-> e, err |-> b.err, fnErr |-> "not called", wrote |-> {}]
      ELSE LET f == runFn(body, b.eng, {})
               c == execCommit(f.eng)
               caught == IF f.err # "none" THEN f.err ELSE c.err
               rb == execRollback(f.eng)
           IN  IF f.err = "none" /\ c.err = "none"
                 THEN [eng |-> c.eng, err |-> "none", fnErr |-> "none",
                       wrote |-> f.wrote]
               ELSE [eng |-> rb.eng,
                     err |-> IF rb.err # "none" THEN rb.err ELSE caught,
                     fnErr |-> f.err, wrote |-> f.wrote]

NoTxn == [state |-> "none"]

\* A caller outside any transaction calls a transaction wrapper.
TxnCall ==
  /\ isOpen /\ cpc = "idle" /\ txn = NoTxn
  /\ \E body \in FnBodies(MaxOps) :
       LET r == transaction(body, sqlite)
       IN  /\ sqlite' = r.eng
           /\ txn' = [state |-> "ended", fn |-> body, err |-> r.err,
                      fnErr |-> r.fnErr, wrote |-> r.wrote, before |-> sqlite.rows]
  /\ UNCHANGED <<stmts, openStmts, isOpen, cpc, outsideAdapter>>

\* The caller takes what the wrapper returned or threw.
TxnReturn ==
  /\ cpc = "idle" /\ txn # NoTxn
  /\ txn' = NoTxn
  /\ UNCHANGED <<sqlite, stmts, openStmts, isOpen, cpc, outsideAdapter>>

\* this._openStmts.add(stmt), and the same with the statement left out.
trackNone(open, s) == open

track(open, s) == open \cup {s}

\* prepare(sql): a new statement handle, tracked.
Prepare(s) ==
  /\ isOpen /\ cpc = "idle" /\ stmts[s] = "none"
  /\ stmts' = [stmts EXCEPT ![s] = "open"]
  /\ openStmts' = track(openStmts, s)
  /\ UNCHANGED <<sqlite, txn, isOpen, cpc, outsideAdapter>>

\* close() is called.
CloseCall ==
  /\ isOpen /\ cpc = "idle" /\ txn = NoTxn
  /\ cpc' = "finalizing"
  /\ UNCHANGED <<sqlite, txn, stmts, openStmts, isOpen, outsideAdapter>>

\* One turn of the loop of close(): stmt.finalize() on a tracked statement.
CloseFinalize ==
  /\ cpc = "finalizing"
  /\ \E s \in openStmts :
       /\ stmts[s] = "open"
       /\ stmts' = [stmts EXCEPT ![s] = "finalized"]
  /\ UNCHANGED <<sqlite, txn, openStmts, isOpen, cpc, outsideAdapter>>

\* The end of close(): this._openStmts.clear(), this._db.close().
CloseDb ==
  /\ cpc = "finalizing"
  /\ \A s \in openStmts : stmts[s] # "open"
  /\ openStmts' = {}
  /\ isOpen' = FALSE
  /\ cpc' = "closed"
  /\ UNCHANGED <<sqlite, txn, stmts, outsideAdapter>>

\* A database just opened: no row, no statement.
AdapterQuiet ==
  /\ sqlite = EngineStart
  /\ txn = NoTxn
  /\ stmts = [s \in StmtIds |-> "none"]
  /\ openStmts = {}
  /\ isOpen = TRUE
  /\ cpc = "idle"

AdapterNext ==
  \/ TxnCall
  \/ TxnReturn
  \/ \E s \in StmtIds : Prepare(s)
  \/ CloseCall
  \/ CloseFinalize
  \/ CloseDb

(***************************************************************************)
(* Extraction of the declarations of one file (TreeSitterExtractor).       *)
(***************************************************************************)
\* The last row (0-based) on which a declaration can start, and the largest
\* number of declarations of the file.
MaxRow == 1
MaxDecls == 3

\* EXTRACTORS.typescript: the syntax node types of each table.
functionTypes == {"function_declaration"}
classTypes == {"class_declaration"}
methodTypes == {"method_definition"}
importTypes == {"import_statement"}
callTypes == {"call_expression"}

\* The syntax nodes that can hold other syntax nodes.
NodeTypes == functionTypes \cup classTypes \cup methodTypes

\* A syntax node of the tree: a class, a function declaration, a method
\* definition, an import statement or a call expression, with its name (the
\* module of an import, the callee of a call), its start position, its last
\* row, the number of declarations around it and, for a call, whether it is
\* written in the parameter list or in the body of the declaration around it.
\* Only the first row has a second column; the classes are named f, the
\* methods g, the functions f or g.
Decls ==
  {d \in [type : NodeTypes \cup importTypes \cup callTypes, name : {"f", "g"},
          row : 0..MaxRow, column : {0, 8}, endRow : 0..MaxRow,
          depth : {0, 1, 2}, site : {"none", "params", "body"}] :
     /\ d.column = 8 => d.row = 0
     /\ d.endRow >= d.row
     /\ d.type \notin NodeTypes => (d.endRow = d.row /\ d.name = "f")
     /\ d.type \in classTypes => d.name = "f"
     /\ d.type \in methodTypes => d.name = "g"
     /\ d.type \in callTypes <=> d.site # "none"}

\* Document order of two start positions.
Before(d1, d2) ==
  d1.row < d2.row \/ (d1.row = d2.row /\ d1.column < d2.column)

\* visitNode / extractMethod: the kind a declaration is created with.  A type
\* of functionTypes is a method when nodeStack is not empty and the type is
\* in methodTypes too; a type of methodTypes only is a function at the top
\* level (the language is not Go) and a method otherwise.
nodeKind(type, inside) ==
  IF type \in functionTypes
    THEN IF inside /\ type \in methodTypes THEN "method" ELSE "function"
  ELSE IF type \in classTypes THEN "class"
  ELSE IF inside THEN "method" ELSE "function"

\* createNode with the time of the run in the id.
createNodeStamped(filePath, kind, d, now) ==
  [id |-> <<generateNodeId(filePath, kind, d.name, d.row + 1), now>>,
   kind |-> kind, name |-> d.name, filePath |-> filePath,
   startLine |-> d.row + 1, endLine |-> d.endRow + 1,
   startColumn |-> d.column, updatedAt |-> now]

\* createNode(kind, name, node): the id comes from the file path, the kind,
\* the name and node.startPosition.row + 1; the column is stored only.
createNodeAt(filePath, kind, d, now) ==
  [id |-> generateNodeId(filePath, kind, d.name, d.row + 1),
   kind |-> kind, name |-> d.name, filePath |-> filePath,
   startLine |-> d.row + 1, endLine |-> d.endRow + 1,
   startColumn |-> d.column, updatedAt |-> now]

\* createNode without the containment edge.
noParentEdge(stack, id) == <<>>

\* createNode: the containment edge from the top of nodeStack, if any.
parentEdge(stack, id) ==
  IF stack # <<>>
    THEN <<[source |-> stack[Len(stack)].id, target |-> id, kind |-> "contains"]>>
  ELSE <<>>

\* extractImport and extractCall: the reference from the top of nodeStack.
reference(stack, d, kind) ==
  [fromNodeId |-> stack[Len(stack)].id, referenceName |-> d.name,
   referenceKind |-> kind, line |-> d.row + 1, column |-> d.column]

NoOutput == [nodes |-> <<>>, edges |-> <<>>, refs |-> <<>>, stack |-> <<>>]

\* The visit of one syntax node.  The declarations that ended before it are
\* popped from nodeStack; an entry of nodeStack says whether it is a function
\* or method, whose body visitFunctionBody searches for calls only.
\*  - Below a function: a call in its body, or anywhere in a declaration
\*    nested in its body, pushes a reference from the function; a call in its
\*    parameter list and every nested declaration or import is not visited.
\*  - Otherwise (visitNode): an import or a call pushes a reference when
\*    nodeStack is not empty; a declaration is created, gets its contains
\*    edge and is on nodeStack while its body is visited.
visitNode(filePath, out, d, now) ==
  LET stack == SubSeq(out.stack, 1, Min(d.depth, Len(out.stack)))
      inside == stack # <<>>
      kind == nodeKind(d.type, inside)
      node == createNodeAt(filePath, kind, d, now)
  IN  IF inside /\ stack[Len(stack)].fn
        THEN IF d.type \in callTypes /\
                (d.site = "body" \/ d.depth > Len(stack))
               THEN [out EXCEPT !.stack = stack,
                                !.refs = Append(@, reference(stack, d, "calls"))]
             ELSE [out EXCEPT !.stack = stack]
      ELSE IF d.type \in importTypes
        THEN [out EXCEPT !.stack = stack,
                         !.refs = IF inside
                                    THEN Append(@, reference(stack, d, "imports"))
                                  ELSE @]
      ELSE IF d.type \in callTypes
        THEN [out EXCEPT !.stack = stack,
                         !.refs = IF inside
                                    THEN Append(@, reference(stack, d, "calls"))
                                  ELSE @]
      ELSE [nodes |-> Append(out.nodes, node),
            edges |-> out.edges \o parentEdge(stack, node.id),
            refs |-> out.refs,
            stack |-> Append(stack, [id |-> node.id,
                                     fn |-> d.type \notin classTypes])]

\* extract(): the syntax nodes are visited in document order.
RECURSIVE extractFrom(_, _, _, _)
extractFrom(filePath, out, decls, now) ==
  IF decls = <<>> THEN out
  ELSE extractFrom(filePath, visitNode(filePath, out, Head(decls), now),
                   Tail(decls), now)

extract(filePath, decls, now) == extractFrom(filePath, NoOutput, decls, now)

\* The declarations of the file that are not closed after its last syntax
\* node, outermost first.
RECURSIVE openNodes(_)
openNodes(decls) ==
  IF decls = <<>> THEN <<>>
  ELSE LET d == decls[Len(decls)]
           kept == SubSeq(openNodes(SubSeq(decls, 1, Len(decls) - 1)), 1, d.depth)
       IN  IF d.type \in NodeTypes THEN Append(kept, d) ELSE kept

\* A syntax node can be written after the last one of the file: it lies in an
\* open declaration and ends with it, or at the top level, and it starts
\* after the declarations it does not lie in; only a function or method has
\* a parameter list.
canFollow(decls, d) ==
  LET open == openNodes(decls)
  IN  /\ d.depth <= Len(open)
      /\ d.depth > 0 => d.endRow <= open[d.depth].endRow
      /\ \A j \in (d.depth + 1)..Len(open) : d.row >= open[j].endRow
      /\ d.site = "params" =>
           (d.depth > 0 /\ open[d.depth].type \notin classTypes)

NoRun == -1

\* The file is edited: a syntax node is written after the last one.  The
\* result of the last extraction is dropped.
AddDecl(d) ==
  /\ Len(source) < MaxDecls
  /\ IF source = <<>> THEN TRUE ELSE Before(source[Len(source)], d)
  /\ canFollow(source, d)
  /\ source' = Append(source, d)
  /\ extracted' = <<>>
  /\ exEdges' = <<>>
  /\ exRefs' = <<>>
  /\ exNow' = NoRun
  /\ UNCHANGED outsideExtract

\* The file is emptied.
ClearSource ==
  /\ source # <<>>
  /\ source' = <<>>
  /\ extracted' = <<>>
  /\ exEdges' = <<>>
  /\ exRefs' = <<>>
  /\ exNow' = NoRun
  /\ UNCHANGED outsideExtract

\* extractFromSource on the file as it is, at some time.
Extract ==
  /\ \E now \in 0..MaxClock :
       LET out == extract("a.ts", source, now)
       IN  /\ extracted' = out.nodes
           /\ exEdges' = out.edges
           /\ exRefs' = out.refs
           /\ exNow' = now
  /\ UNCHANGED <<source, outsideExtract>>

\* An empty file, nothing extracted.
ExtractQuiet ==
  /\ source = <<>>
  /\ extracted = <<>>
  /\ exEdges = <<>>
  /\ exRefs = <<>>
  /\ exNow = NoRun

ExtractNext ==
  \/ \E d \in Decls : AddDecl(d)
  \/ ClearSource
  \/ Extract

\* The declaration around source[i], 0 at the top level.
RECURSIVE parentOf(_, _, _)
parentOf(decls, i, j) ==
  IF decls[i].depth = 0 \/ j = 0 THEN 0
  ELSE IF decls[j].depth = decls[i].depth - 1 THEN j
  ELSE parentOf(decls, i, j - 1)

\* source[i] lies in the body or the parameter list of a function or method.
RECURSIVE underFunction(_, _)
underFunction(decls, i) ==
  LET p == parentOf(decls, i, i - 1)
  IN  IF p = 0 THEN FALSE
      ELSE decls[p].type \notin classTypes \/ underFunction(decls, p)

\* source[i] is a declaration for which extract creates a node.
isCreated(decls, i) ==
  decls[i].type \in NodeTypes /\ ~underFunction(decls, i)

\* The innermost declaration around source[i] for which a node is created,
\* 0 when there is none.
RECURSIVE innermostCreated(_, _)
innermostCreated(decls, i) ==
  LET p == parentOf(decls, i, i - 1)
  IN  IF p = 0 THEN 0
      ELSE IF isCreated(decls, p) THEN p
      ELSE innermostCreated(decls, p)

\* The id of the node created for source[i].
idAt(decls, i) ==
  generateNodeId("a.ts",
                 nodeKind(decls[i].type, parentOf(decls, i, i - 1) # 0),
                 decls[i].name, decls[i].row + 1)

(***************************************************************************)
(* The MCP server: StdioTransport.handleLine and MCPServer.handleMessage.  *)
(***************************************************************************)
ErrorCodes ==
  [ParseError |-> -32700, InvalidRequest |-> -32600, MethodNotFound |-> -32601,
   InvalidParams |-> -32602, InternalError |-> -32603]

\* The names of the closed list of tools.
tools == {"codegraph_search"}

\* A parsed JSON value that is not an object (a number, a string, null).
NoMessage ==
  [isObject |-> FALSE, jsonrpc |-> "absent", method |-> "absent", id |-> "absent",
   hasParams |-> FALSE, toolName |-> "absent"]

\* The parsed JSON objects: "absent" is a missing member, "#7" a member that
\* is a number.
Messages ==
  {m \in [isObject : {TRUE}, jsonrpc : {"2.0", "1.0", "absent"},
          method : {"initialize", "initialized", "tools/list", "tools/call",
                    "ping", "foo", "#7", "absent"},
          id : {"absent", "1", "2"}, hasParams : BOOLEAN,
          toolName : {"absent", "codegraph_search", "nope"}] :
     ~m.hasParams => m.toolName = "absent"}

\* The lines of stdin: a blank line, a line JSON.parse rejects, or a line it
\* parses to a value; throws says whether the work of the handler called for
\* the line (initializing the project, executing the tool) throws.
Lines ==
  [text : {"blank", "garbage"}, value : {NoMessage}, throws : {FALSE}]
    \cup [text : {"json"}, value : {NoMessage} \cup Messages, throws : BOOLEAN]

sendResult(id) == [id |-> id, error |-> FALSE, code |-> 0]
sendError(id, code) == [id |-> id, error |-> TRUE, code |-> code]

\* isValidMessage accepting everything.
isValidMessageAny(msg) == TRUE

isValidMessage(msg) ==
  IF ~msg.isObject THEN FALSE
  ELSE IF msg.jsonrpc # "2.0" THEN FALSE
  ELSE IF msg.method \in {"#7", "absent"} THEN FALSE
  ELSE TRUE

\* What a handler did: the responses it sent and whether it threw.
Handled(responses, threw) == [sent |-> responses, threw |-> threw]

handleToolsCall(request, throws) ==
  IF ~request.hasParams \/ request.toolName = "absent"
    THEN Handled(<<sendError(request.id, ErrorCodes.InvalidParams)>>, FALSE)
  ELSE IF request.toolName \notin tools
    THEN Handled(<<sendError(request.id, ErrorCodes.InvalidParams)>>, FALSE)
  ELSE IF throws THEN Handled(<<>>, TRUE)
  ELSE Handled(<<sendResult(request.id)>>, FALSE)

handleInitialize(request, throws) ==
  IF throws THEN Handled(<<>>, TRUE)
  ELSE Handled(<<sendResult(request.id)>>, FALSE)

handleMessage(message, throws) ==
  LET isRequest == message.id # "absent"
  IN  CASE message.method = "initialize" ->
             IF isRequest THEN handleInitialize(message, throws)
             ELSE Handled(<<>>, FALSE)
        [] message.method = "initialized" -> Handled(<<>>, FALSE)
        [] message.method \in {"tools/list", "ping"} ->
             IF isRequest THEN Handled(<<sendResult(message.id)>>, FALSE)
             ELSE Handled(<<>>, FALSE)
        [] message.method = "tools/call" ->
             IF isRequest THEN handleToolsCall(message, throws)
             ELSE Handled(<<>>, FALSE)
        [] OTHER ->
             IF isRequest
               THEN Handled(<<sendError(message.id, ErrorCodes.MethodNotFound)>>, FALSE)
             ELSE Handled(<<>>, FALSE)

handleLine(line) ==
  IF line.text = "blank" THEN <<>>
  ELSE IF line.text = "garbage" THEN <<sendError("null", ErrorCodes.ParseError)>>
  ELSE IF ~isValidMessage(line.value)
    THEN <<sendError("null", ErrorCodes.InvalidRequest)>>
  ELSE LET done == handleMessage(line.value, line.throws)
       IN  IF done.threw /\ line.value.id # "absent"
             THEN done.sent \o <<sendError(line.value.id, ErrorCodes.InternalError)>>
           ELSE done.sent

\* rl.on('line'): a line arrives and is handled.
Line(line) ==
  /\ lastLine' = line
  /\ sent' = handleLine(line)
  /\ UNCHANGED outsideMcp

\* Nothing read yet.
McpQuiet ==
  /\ lastLine = [text |-> "blank", value |-> NoMessage, throws |-> FALSE]
  /\ sent = <<>>

McpNext == \E line \in Lines : Line(line)

(***************************************************************************)
(* Mutex: acquire, the release function and withLock.                      *)
(***************************************************************************)
\* The callers of one Mutex, and the largest value of the shared counter,
\* which the callers' functions count modulo MaxCount + 1.
NumCallers == 3
MaxCount == 2

Callers == 1..NumCallers

\* A loop condition that never waits.
whileNever(isLocked) == FALSE

\* acquire: while (this.locked).
whileLocked(isLocked) == isLocked

\* acquire from the head of its loop to its next await or to its return: the
\* caller queues its resolve function, or sets locked and gets its release
\* function.
acquireLoop(p) ==
  IF whileLocked(locked)
    THEN /\ waitQueue' = Append(waitQueue, p)
         /\ mpc' = [mpc EXCEPT ![p] = "waiting"]
         /\ UNCHANGED locked
  ELSE /\ locked' = TRUE
       /\ mpc' = [mpc EXCEPT ![p] = "acquired"]
       /\ UNCHANGED waitQueue

\* withLock is called: acquire() runs to its first await or to its return.
MutexAcquire(p) ==
  /\ mpc[p] = "idle"
  /\ acquireLoop(p)
  /\ UNCHANGED <<shared, tmp, outsideMutex>>

\* A caller whose promise was resolved runs again and tests the loop
\* condition.
MutexResume(p) ==
  /\ mpc[p] = "woken"
  /\ acquireLoop(p)
  /\ UNCHANGED <<shared, tmp, outsideMutex>>

\* withLock resumes after await this.acquire() and calls fn, which reads the
\* counter and awaits.
MutexEnter(p) ==
  /\ mpc[p] = "acquired"
  /\ mpc' = [mpc EXCEPT ![p] = "running"]
  /\ tmp' = [tmp EXCEPT ![p] = shared]
  /\ UNCHANGED <<locked, waitQueue, shared, outsideMutex>>

\* fn writes the counter and returns; finally release(): locked is cleared
\* and the first queued resolve function is called.
MutexRelease(p) ==
  /\ mpc[p] = "running"
  /\ shared' = (tmp[p] + 1) % (MaxCount + 1)
  /\ locked' = FALSE
  /\ IF waitQueue # <<>>
       THEN /\ waitQueue' = Tail(waitQueue)
            /\ mpc' = [mpc EXCEPT ![p] = "idle", ![Head(waitQueue)] = "woken"]
     ELSE /\ mpc' = [mpc EXCEPT ![p] = "idle"]
          /\ UNCHANGED waitQueue
  /\ UNCHANGED <<tmp, outsideMutex>>

\* new Mutex(), no caller yet.
MutexQuiet ==
  /\ locked = FALSE
  /\ waitQueue = <<>>
  /\ mpc = [p \in Callers |-> "idle"]
  /\ shared = 0
  /\ tmp = [p \in Callers |-> 0]

MutexNext ==
  \E p \in Callers :
    \/ MutexAcquire(p)
    \/ MutexResume(p)
    \/ MutexEnter(p)
    \/ MutexRelease(p)

(***************************************************************************)
(* The progress events of one indexAll run.                                *)
(***************************************************************************)
\* What the scanner can return: project paths, none of them twice.
ScanResults ==
  {s \in UNION {[1..n -> Paths] : n \in 0..Len(PathOrder)} :
     \A i, j \in 1..Len(s) : i # j => s[i] # s[j]}

\* A progress event; an event without a current file carries "".
progress(phase, current, total, currentFile) ==
  [phase |-> phase, current |-> current, total |-> total, currentFile |-> currentFile]

\* files.slice(i, i + FILE_IO_BATCH_SIZE)
slice(files, i) == SubSeq(files, i + 1, Min(i + FILE_IO_BATCH_SIZE, Len(files)))

\* The results of the reads in the order the reads completed.
inCompletionOrder(files, done) == done

\* Promise.all: the results in the order of the promises, whatever the order
\* in which they settled.
promiseAll(files, done) ==
  [k \in 1..Len(files) |-> CHOOSE r \in SeqToSet(done) : r.filePath = files[k]]

\* indexAll up to the batch loop: the first scanning event, then one scanning
\* event per file the scanner found.
ProgCall(files) ==
  /\ ppc = "idle"
  /\ pfiles' = files
  /\ events' = <<progress("scanning", 0, 0, "")>>
                 \o [k \in 1..Len(files) |-> progress("scanning", k, 0, files[k])]
  /\ ppos' = 0
  /\ processed' = 0
  /\ ppc' = "batch"
  /\ UNCHANGED <<readsDone, fileContents, pidx, outsideProg>>

\* The head of the batch loop: the reads of the next batch are issued, or the
\* loop ends and the resolving event is delivered.
ProgBatch ==
  /\ ppc = "batch"
  /\ IF ppos < Len(pfiles)
       THEN /\ ppc' = "reading"
            /\ readsDone' = <<>>
            /\ UNCHANGED events
       ELSE /\ ppc' = "done"
            /\ events' = Append(events, progress("resolving", 0, 1, ""))
            /\ UNCHANGED readsDone
  /\ UNCHANGED <<pfiles, ppos, fileContents, pidx, processed, outsideProg>>

\* One read of the batch completes, with the content or with an error.
ProgRead(fp, failed) ==
  /\ ppc = "reading"
  /\ fp \in SeqToSet(slice(pfiles, ppos))
  /\ \A k \in 1..Len(readsDone) : readsDone[k].filePath # fp
  /\ readsDone' = Append(readsDone, [filePath |-> fp, error |-> failed])
  /\ UNCHANGED <<pfiles, ppc, ppos, fileContents, pidx, processed, events, outsideProg>>

\* All reads of the batch have completed: Promise.all resolves.
ProgAll ==
  /\ ppc = "reading"
  /\ Len(readsDone) = Len(slice(pfiles, ppos))
  /\ fileContents' = promiseAll(slice(pfiles, ppos), readsDone)
  /\ pidx' = 1
  /\ ppc' = "files"
  /\ UNCHANGED <<pfiles, ppos, readsDone, processed, events, outsideProg>>

\* One turn of the loop over fileContents: the parsing event, then the file is
\* indexed unless its read failed; indexing can throw.
ProgFile(throws) ==
  /\ ppc = "files"
  /\ IF pidx <= Len(fileContents)
       THEN /\ processed' = processed + 1
            /\ events' = Append(events, progress("parsing", processed + 1, Len(pfiles),
                                                 fileContents[pidx].filePath))
            /\ pidx' = pidx + 1
            /\ ppc' = IF throws /\ ~fileContents[pidx].error THEN "thrown" ELSE "files"
            /\ UNCHANGED ppos
       ELSE /\ ~throws
            /\ ppos' = ppos + FILE_IO_BATCH_SIZE
            /\ ppc' = "batch"
            /\ UNCHANGED <<processed, events, pidx>>
  /\ UNCHANGED <<pfiles, readsDone, fileContents, outsideProg>>

\* No run of indexAll.
ProgQuiet ==
  /\ pfiles = <<>> /\ ppc = "idle" /\ ppos = 0 /\ readsDone = <<>>
  /\ fileContents = <<>> /\ pidx = 0 /\ processed = 0 /\ events = <<>>

\* The run is over; the next one starts from scratch.
ProgReturn ==
  /\ ppc \in {"done", "thrown"}
  /\ pfiles' = <<>> /\ ppc' = "idle" /\ ppos' = 0 /\ readsDone' = <<>>
  /\ fileContents' = <<>> /\ pidx' = 0 /\ processed' = 0 /\ events' = <<>>
  /\ UNCHANGED outsideProg

ProgNext ==
  \/ \E files \in ScanResults : ProgCall(files)
  \/ ProgBatch
  \/ \E fp \in Paths, failed \in BOOLEAN : ProgRead(fp, failed)
  \/ ProgAll
  \/ \E throws \in BOOLEAN : ProgFile(throws)
  \/ ProgReturn

(***************************************************************************)
(* The filesystem walk of a project that is not under git.                 *)
(***************************************************************************)
\* The real directories in readdir order: the root, a directory in it, and a
\* directory in that one.
DirOrder == <<"r", "a", "b">>
Dirs == SeqToSet(DirOrder)
parentDir(d) == CASE d = "a" -> "r" [] d = "b" -> "a" [] OTHER -> ""

\* The calls of walk that can be open at once, scanDirectoryWalk included.
MaxWalkDepth == 4

\* The entries readdirSync returns for a real directory: a file, its real
\* subdirectories, its symbolic links (each resolved by realpathSync to the
\* real directory it names).
dirent(kind, to) == [kind |-> kind, to |-> to]
readdirSync(d, symlinks) ==
  <<dirent("file", "")>>
    \o SelectSeq([k \in 1..Len(DirOrder) |-> dirent("dir", DirOrder[k])],
                 LAMBDA e : parentDir(e.to) = d)
    \o SelectSeq([k \in 1..Len(DirOrder) |-> dirent("link", DirOrder[k])],
                 LAMBDA e : <<d, e.to>> \in symlinks)

\* A walk that keeps no record of the directories it has been in.
neverVisited(visited, realDir) == FALSE

\* visitedDirs.has(realDir)
alreadyVisited(visited, realDir) == realDir \in visited

\* scanDirectoryWalk is called: its body is the one call walk(rootDir).
WalkCall(symlinks) ==
  /\ wpc = "idle"
  /\ links' = symlinks
  /\ wpc' = "walking"
  /\ wstack' = <<[dir |-> "", todo |-> <<dirent("dir", "r")>>]>>
  /\ visitedDirs' = {}
  /\ readdirs' = [d \in Dirs |-> 0]
  /\ UNCHANGED outsideWalk

\* The call on top of the stack with its first entry done.
consumed == [wstack EXCEPT ![Len(wstack)].todo = Tail(@)]
nextEntry == Head(wstack[Len(wstack)].todo)
walking == wpc = "walking" /\ wstack # <<>> /\ wstack[Len(wstack)].todo # <<>>

\* The entry is a file: it is listed or not, and the loop goes on.
WalkFile ==
  /\ walking /\ nextEntry.kind = "file"
  /\ wstack' = consumed
  /\ UNCHANGED <<links, wpc, visitedDirs, readdirs, outsideWalk>>

\* The entry is a directory, or a link to one, that was visited: walk returns
\* at once.
WalkVisited ==
  /\ walking /\ nextEntry.kind # "file"
  /\ alreadyVisited(visitedDirs, nextEntry.to)
  /\ wstack' = consumed
  /\ UNCHANGED <<links, wpc, visitedDirs, readdirs, outsideWalk>>

\* The entry is a directory, or a link to one, that was not visited: it is
\* recorded; then walk returns because of a .codegraphignore marker or an
\* unreadable directory, or it enumerates the entries and loops over them.
WalkEnter(skipped) ==
  /\ walking /\ nextEntry.kind # "file"
  /\ ~alreadyVisited(visitedDirs, nextEntry.to)
  /\ Len(wstack) < MaxWalkDepth
  /\ visitedDirs' = visitedDirs \cup {nextEntry.to}
  /\ IF skipped
       THEN /\ wstack' = consumed
            /\ UNCHANGED readdirs
       ELSE /\ wstack' = Append(consumed, [dir |-> nextEntry.to,
                                           todo |-> readdirSync(nextEntry.to, links)])
            /\ readdirs' = [readdirs EXCEPT ![nextEntry.to] = @ + 1]
  /\ UNCHANGED <<links, wpc, outsideWalk>>

\* The loop over the entries is over: the call returns; the return of
\* scanDirectoryWalk ends the scan.
WalkReturn ==
  /\ wpc = "walking" /\ wstack # <<>> /\ wstack[Len(wstack)].todo = <<>>
  /\ wstack' = SubSeq(wstack, 1, Len(wstack) - 1)
  /\ wpc' = IF Len(wstack) = 1 THEN "done" ELSE "walking"
  /\ UNCHANGED <<links, visitedDirs, readdirs, outsideWalk>>

\* No scan.
WalkQuiet ==
  /\ links = {} /\ wpc = "idle" /\ wstack = <<>> /\ visitedDirs = {}
  /\ readdirs = [d \in Dirs |-> 0]

\* The caller has the list; the next scan starts from scratch.
WalkDone ==
  /\ wpc = "done"
  /\ links' = {} /\ wpc' = "idle" /\ wstack' = <<>> /\ visitedDirs' = {}
  /\ readdirs' = [d \in Dirs |-> 0]
  /\ UNCHANGED outsideWalk

\* The steps of one synchronous call of scanDirectoryWalk.
WalkStep ==
  \/ WalkFile
  \/ WalkVisited
  \/ \E skipped \in BOOLEAN : WalkEnter(skipped)
  \/ WalkReturn

WalkNext ==
  \/ \E symlinks \in SUBSET (Dirs \X Dirs) : WalkCall(symlinks)
  \/ WalkStep
  \/ WalkDone

(***************************************************************************)
(* The default project of the MCP server.                                  *)
(***************************************************************************)
\* The CodeGraph instances one server can open before the model stops
\* opening more; instance 0 stands for null.
MaxOpens == 4

\* CodeGraph.open and CodeGraph.openSync: a new instance.
newInstance == Cardinality(opened) + 1
canOpen == Cardinality(opened) + opening < MaxOpens

\* findNearestCodeGraphRoot: the nearest folder with a .codegraph in it.
findNearestCodeGraphRoot(path) == IF hasRoot THEN "root" ELSE ""

\* The server is constructed without a project path and has not stopped.
SrvQuiet ==
  /\ cg = 0 /\ defaultCg = 0 /\ projectPath = "" /\ hasRoot = FALSE
  /\ opening = 0 /\ opened = {} /\ closed = {} /\ stopped = FALSE

\* The user runs `codegraph init` in the project, or removes .codegraph.
SrvSetRoot(exists) ==
  /\ ~stopped
  /\ hasRoot' = exists
  /\ UNCHANGED <<cg, defaultCg, projectPath, opening, opened, closed, stopped, outsideSrv>>

\* An initialize request is handled up to the await in tryInitializeDefault:
\* the project path is set and, where a root is found, CodeGraph.open is
\* called. The handlers of the lines that follow run while the call is
\* pending.
SrvInitialize ==
  /\ ~stopped
  /\ IF findNearestCodeGraphRoot("p") = ""
       THEN /\ projectPath' = "p"
            /\ UNCHANGED opening
       ELSE /\ canOpen
            /\ projectPath' = findNearestCodeGraphRoot("p")
            /\ opening' = opening + 1
  /\ UNCHANGED <<cg, defaultCg, hasRoot, opened, closed, stopped, outsideSrv>>

\* A pending CodeGraph.open settles: tryInitializeDefault resumes, stores the
\* instance in this.cg and makes it the default of the ToolHandler, or
\* reports the error.
SrvOpened(ok) ==
  /\ ~stopped /\ opening > 0
  /\ opening' = opening - 1
  /\ IF ok
       THEN /\ opened' = opened \cup {newInstance}
            /\ cg' = newInstance
            /\ defaultCg' = newInstance
       ELSE UNCHANGED <<opened, cg, defaultCg>>
  /\ UNCHANGED <<projectPath, hasRoot, closed, stopped, outsideSrv>>

\* A tools/call request for a known tool: retryInitIfNeeded, which opens the
\* project synchronously when the ToolHandler has no default instance, a
\* project path is known and a root is found.
SrvToolsCall(ok) ==
  /\ ~stopped
  /\ IF defaultCg # 0 \/ projectPath = "" \/ findNearestCodeGraphRoot(projectPath) = ""
       THEN /\ ok
            /\ UNCHANGED <<cg, defaultCg, projectPath, opened>>
       ELSE /\ canOpen
            /\ IF ok
                 THEN /\ opened' = opened \cup {newInstance}
                      /\ cg' = newInstance
                      /\ projectPath' = findNearestCodeGraphRoot(projectPath)
                      /\ defaultCg' = newInstance
                 ELSE UNCHANGED <<cg, defaultCg, projectPath, opened>>
  /\ UNCHANGED <<hasRoot, opening, closed, stopped, outsideSrv>>

\* stop(): the instance in this.cg is closed, then the process exits.
SrvStop ==
  /\ ~stopped
  /\ closed' = IF cg # 0 THEN closed \cup {cg} ELSE closed
  /\ cg' = 0
  /\ stopped' = TRUE
  /\ UNCHANGED <<defaultCg, projectPath, hasRoot, opening, opened, outsideSrv>>

SrvNext ==
  \/ \E exists \in BOOLEAN : SrvSetRoot(exists)
  \/ SrvInitialize
  \/ \E ok \in BOOLEAN : SrvOpened(ok)
  \/ \E ok \in BOOLEAN : SrvToolsCall(ok)
  \/ SrvStop

(***************************************************************************)
(* The tree format of a subgraph.                                          *)
(***************************************************************************)
\* The node ids of the subgraphs, in the order of subgraph.nodes.
NodeIdOrder == <<"n1", "n2", "n3">>
NodeIds == SeqToSet(NodeIdOrder)

\* The subgraphs: all three nodes or the first two; any set of calls edges
\* between the ids (an edge can name a node the subgraph does not hold), in
\* a fixed order; and the entry points, up to two, which can repeat.
EdgeOrder ==
  [k \in 1..(Len(NodeIdOrder) * Len(NodeIdOrder)) |->
     [source |-> NodeIdOrder[((k - 1) \div Len(NodeIdOrder)) + 1],
      target |-> NodeIdOrder[((k - 1) % Len(NodeIdOrder)) + 1],
      kind |-> "calls"]]
Subgraphs ==
  [nodes : {NodeIds, NodeIds \ {"n3"}},
   edges : {SelectSeq(EdgeOrder, LAMBDA e : e \in E) : E \in SUBSET SeqToSet(EdgeOrder)},
   entryPoints : UNION {[1..n -> NodeIds] : n \in 0..2}]

\* No subgraph.
NoSubgraph == [nodes |-> {}, edges |-> <<>>, entryPoints |-> <<>>]

\* A line of the output: the header of a node, an edge line below a header,
\* the blank line after a tree, the title of the list of remaining nodes, a
\* line of that list; prefix is the number of spaces before a header.
line(type, id, prefix) == [type |-> type, id |-> id, prefix |-> prefix]

\* A format that keeps no record of what it printed.
neverPrinted(printed, id) == FALSE

\* printed.has(id)
isPrinted(printed, id) == id \in printed

\* outgoing.get(id) restricted to the significant kinds.
significantEdges(sg, id) ==
  SelectSeq(sg.edges, LAMBDA e :
    e.source = id /\ e.kind \in {"calls", "extends", "implements", "imports", "references"})

\* The lines for the edges of one kind: one line that summarizes more than
\* three edges, one line per edge otherwise.
edgeLines(kindEdges, prefix) ==
  IF Len(kindEdges) > 3
    THEN <<line("edges", kindEdges[1].target, prefix)>>
    ELSE [i \in 1..Len(kindEdges) |-> line("edge", kindEdges[i].target, prefix)]

RECURSIVE formatNodeTree(_, _, _, _, _)
RECURSIVE formatTargets(_, _, _, _, _)

\* formatNodeTree on a node id; out holds printed and lines.
formatNodeTree(id, sg, out, depth, prefix) ==
  IF isPrinted(out.printed, id)
    THEN out
    ELSE LET edges == significantEdges(sg, id)
             shown == [printed |-> out.printed \cup {id},
                       lines |-> Append(out.lines, line("header", id, prefix))
                                   \o edgeLines(edges, prefix + 2)]
         IN IF depth < 1
              THEN formatTargets(SubSeq(edges, 1, Min(3, Len(edges))), sg, shown,
                                 depth + 1, prefix + 2)
              ELSE shown

\* The loop over the first three significant edges of a node.
formatTargets(edges, sg, out, depth, prefix) ==
  IF edges = <<>>
    THEN out
    ELSE LET target == Head(edges).target
             next == IF target \in sg.nodes /\ ~isPrinted(out.printed, target)
                       THEN formatNodeTree(target, sg, out, depth, prefix)
                       ELSE out
         IN formatTargets(Tail(edges), sg, next, depth, prefix)

RECURSIVE formatEntries(_, _, _)
\* The loop over the entry points: a tree, then a blank line.
formatEntries(entries, sg, out) ==
  IF entries = <<>>
    THEN out
    ELSE LET tree == formatNodeTree(Head(entries), sg, out, 0, 0)
         IN formatEntries(Tail(entries), sg,
                          [tree EXCEPT !.lines = Append(@, line("blank", "", 0))])

\* formatSubgraphTree: the lines before the join.
formatSubgraphTree(sg) ==
  LET out == formatEntries(sg.entryPoints, sg, [printed |-> {}, lines |-> <<>>])
      remaining == SelectSeq(NodeIdOrder,
                             LAMBDA id : id \in sg.nodes /\ ~isPrinted(out.printed, id))
  IN IF Len(remaining) > 0 /\ Len(remaining) <= 10
       THEN out.lines \o <<line("title", "", 0)>>
                     \o [i \in 1..Len(remaining) |-> line("other", remaining[i], 2)]
       ELSE IF Len(remaining) > 10
              THEN Append(out.lines, line("more", "", 0))
              ELSE out.lines

\* Nothing was formatted.
FmtQuiet == subgraph = NoSubgraph /\ lines = <<>>

\* A call of formatSubgraphTree.
Format(sg) ==
  /\ subgraph = NoSubgraph
  /\ subgraph' = sg
  /\ lines' = formatSubgraphTree(sg)
  /\ UNCHANGED outsideFmt

\* The caller has the text.
FormatDone ==
  /\ subgraph # NoSubgraph
  /\ subgraph' = NoSubgraph
  /\ lines' = <<>>
  /\ UNCHANGED outsideFmt

FmtNext ==
  \/ \E sg \in Subgraphs : Format(sg)
  \/ FormatDone

\* No run of the later models.
LaterQuiet == ProgQuiet /\ WalkQuiet /\ SrvQuiet /\ FmtQuiet

(***************************************************************************)
(* Specifications.                                                         *)
(***************************************************************************)
vars == <<ixvars, lockvars, envvars, adaptervars, exvars, mcpvars, mutexvars, latervars>>

\* Indexing and syncing a project whose database does not fail.
Init == IndexInit /\ LockQuiet /\ AdapterQuiet /\ ExtractQuiet /\ McpQuiet /\ MutexQuiet /\ LaterQuiet
Spec == Init /\ [][IndexNext]_vars

\* Indexing and syncing a project whose database can fail.
InitFaults == FaultsInit /\ LockQuiet /\ AdapterQuiet /\ ExtractQuiet /\ McpQuiet /\ MutexQuiet /\ LaterQuiet
SpecFaults == InitFaults /\ [][FaultsNext]_vars

\* Whole runs of indexAll, indexFiles, sync and getChangedFiles.
InitRuns == RunsInit /\ LockQuiet /\ AdapterQuiet /\ ExtractQuiet /\ McpQuiet /\ MutexQuiet /\ LaterQuiet
SpecRuns == InitRuns /\ [][RunsNext]_vars

\* Transactions, prepared statements and close of the portable adapter.
InitAdapter == AdapterQuiet /\ IndexStart(FALSE, FALSE) /\ LockQuiet /\ ExtractQuiet /\ McpQuiet /\ MutexQuiet /\ LaterQuiet
SpecAdapter == InitAdapter /\ [][AdapterNext]_vars

\* Edits and extractions of one file.
InitExtract == ExtractQuiet /\ IndexStart(FALSE, FALSE) /\ LockQuiet /\ AdapterQuiet /\ McpQuiet /\ MutexQuiet /\ LaterQuiet
SpecExtract == InitExtract /\ [][ExtractNext]_vars

\* Processes that acquire and release the lock of one database.
InitLock == LockInit /\ IndexStart(FALSE, FALSE) /\ AdapterQuiet /\ ExtractQuiet /\ McpQuiet /\ MutexQuiet /\ LaterQuiet
SpecLock == InitLock /\ [][LockNext]_vars

\* The MCP server reading lines.
InitMcp == McpQuiet /\ IndexStart(FALSE, FALSE) /\ LockQuiet /\ AdapterQuiet /\ ExtractQuiet /\ MutexQuiet /\ LaterQuiet
SpecMcp == InitMcp /\ [][McpNext]_vars

\* The callers of one Mutex.
InitMutex == MutexQuiet /\ IndexStart(FALSE, FALSE) /\ LockQuiet /\ AdapterQuiet /\ ExtractQuiet /\ McpQuiet /\ LaterQuiet
SpecMutex == InitMutex /\ [][MutexNext]_vars

\* The Mutex under the order in which the engine runs continuations, first
\* queued first run: the continuation of a caller woken by a release was
\* queued before the continuation of any acquire() called after that release,
\* so it runs before that caller's function is called. A call of acquire()
\* itself is synchronous and can come first: from the code that follows the
\* call of the release function, or from a continuation queued earlier.
noneWoken == \A q \in Callers : mpc[q] # "woken"
MutexEnterInOrder(p) == noneWoken /\ MutexEnter(p)
MutexReleaseInOrder(p) == noneWoken /\ MutexRelease(p)

MutexInOrderNext ==
  \E p \in Callers :
    \/ MutexAcquire(p)
    \/ MutexResume(p)
    \/ MutexEnterInOrder(p)
    \/ MutexReleaseInOrder(p)

\* Every continuation that is queued runs, and every function that runs
\* returns, so that every holder calls its release function. Nothing makes a
\* caller call acquire().
SpecMutexFair ==
  /\ InitMutex /\ [][MutexInOrderNext]_vars
  /\ \A p \in Callers :
       /\ WF_vars(MutexResume(p))
       /\ WF_vars(MutexEnterInOrder(p))
       /\ WF_vars(MutexReleaseInOrder(p))

\* No run of the earlier models, over a project that is not under git.
EarlierQuiet ==
  /\ IndexStart(FALSE, FALSE) /\ LockQuiet /\ AdapterQuiet /\ ExtractQuiet
  /\ McpQuiet /\ MutexQuiet

\* Runs of indexAll as the progress callback sees them.
InitProgress == EarlierQuiet /\ ProgQuiet /\ WalkQuiet /\ SrvQuiet /\ FmtQuiet
SpecProgress == InitProgress /\ [][ProgNext]_vars

\* Scans by the filesystem walk.
InitWalk == EarlierQuiet /\ ProgQuiet /\ WalkQuiet /\ SrvQuiet /\ FmtQuiet
SpecWalk == InitWalk /\ [][WalkNext]_vars

\* The same, where a call of scanDirectoryWalk, which is synchronous code,
\* keeps running as long as it has a step to take.
SpecWalkFair == SpecWalk /\ WF_vars(WalkStep)

\* The MCP server and its default project.
InitSrv == EarlierQuiet /\ ProgQuiet /\ WalkQuiet /\ SrvQuiet /\ FmtQuiet
SpecSrv == InitSrv /\ [][SrvNext]_vars

\* Calls of the tree formatter.
InitFormat == EarlierQuiet /\ ProgQuiet /\ WalkQuiet /\ SrvQuiet /\ FmtQuiet
SpecFormat == InitFormat /\ [][FmtNext]_vars

(***************************************************************************)
(* Properties of sync and indexAll.                                        *)
(***************************************************************************)
SyncReturned == pc = "done" /\ op = "sync" /\ result.kind = "sync"

\* A file the indexer is meant to store: selected by the configuration, of a
\* supported language and within the size limit.
Storable(p) ==
  /\ disk[p] # NoFile
  /\ shouldIncludeFile(p)
  /\ isLanguageSupported(detectLanguage(p))
  /\ Size(disk[p]) <= maxFileSize

\* C1: when sync has returned, every indexable file on disk has a file record
\* whose content hash is the hash of the file's content, and every file record
\* is the record of a file that is on disk.
C1_SyncReconciles ==
  SyncReturned =>
    /\ \A p \in Paths : Storable(p) =>
         /\ db.files[p].present
         /\ db.files[p].contentHash = hashContent(disk[p])
    /\ \A p \in Paths : db.files[p].present => disk[p] # NoFile

\* C2: a sync that follows a completed indexAll with no change of the
\* filesystem in between reports no added, modified or removed file.
C2_SyncAfterIndexAllReportsNothing ==
  (SyncReturned /\ lastRun) =>
    /\ result.filesAdded = 0
    /\ result.filesModified = 0
    /\ result.filesRemoved = 0

\* C3: when sync has returned, a file that had a file record and is no longer
\* on disk has no node and no edge rooted at one of its nodes left in the
\* store, and filesRemoved counts it.
DeletedIndexed == {p \in Paths : preDb[p].present /\ disk[p] = NoFile}

C3_DeletedFileIsPurged ==
  SyncReturned =>
    /\ \A p \in DeletedIndexed :
         /\ \A n \in db.nodes : n.filePath # p
         /\ \A e \in db.edges : e.source[1] # p
    /\ result.filesRemoved >= Cardinality(DeletedIndexed)

\* C4: when sync has returned, a file whose content hash differed from its
\* file record has a record with the new hash, none of its nodes is older
\* than the previous index time, and filesModified counts it.
ChangedIndexed ==
  {p \in Paths : /\ preDb[p].present
                 /\ Storable(p)
                 /\ preDb[p].contentHash # hashContent(disk[p])}

C4_ModifiedFileIsReindexed ==
  SyncReturned =>
    /\ \A p \in ChangedIndexed :
         /\ db.files[p].present
         /\ db.files[p].contentHash = hashContent(disk[p])
         /\ \A n \in db.nodes : n.filePath = p => n.updatedAt >= preDb[p].indexedAt
    /\ result.filesModified >= Cardinality(ChangedIndexed)

\* The file a step of a per-file loop works on.
StepFile == IF pc = "file" THEN scanned[pos + 1] ELSE Head(queue)
InFileStep ==
  \/ pc = "file" /\ ~aborted /\ batch[scanned[pos + 1]] # NoFile
  \/ pc \in {"xindex", "sindex"} /\ queue # <<>>

\* C5: storing one file's extraction result is atomic: a step that stores a
\* file leaves the store either as it was or as the complete sequence of
\* store operations leaves it.
C5_StoreIsAtomic ==
  [][InFileStep =>
       db' \in {db, indexFile(db, disk, StepFile, clock, clock, "none").db}]_vars

\* C6: every node in the store has a file record whose path is the node's
\* file path.
C6_NodeHasFileRecord ==
  \A n \in db.nodes : db.files[n.filePath].present

\* C7: a database error while storing one file does not abort indexAll: the
\* run returns an IndexResult after it has gone through every scanned file.
C7_IndexAllSurvivesDbError ==
  (op = "indexAll" /\ pc = "done" /\ ~aborted) =>
    /\ result.kind = "index"
    /\ pos = Len(scanned)

\* C8: when indexAll reaches a check point with the signal aborted, it returns
\* success = false with an Aborted error in front and the counts accumulated
\* so far, and leaves the store as it is; and the store is written during
\* indexAll only by the step of a file reached with the signal not aborted,
\* which writes that file only.
AtCheckPoint ==
  /\ op = "indexAll"
  /\ \/ pc = "init"
     \/ pc = "batchHead" /\ pos < Len(scanned)
     \/ pc = "file"

OthersUntouched(p) ==
  /\ \A q \in Paths \ {p} : db'.files[q] = db.files[q]
  /\ {n \in db'.nodes : n.filePath # p} = {n \in db.nodes : n.filePath # p}
  /\ {e \in db'.edges : e.source[1] # p} = {e \in db.edges : e.source[1] # p}

C8_AbortReturnsPartialResult ==
  [][/\ (AtCheckPoint /\ aborted /\ pc' # pc) =>
          /\ pc' = "done"
          /\ result'.kind = "index"
          /\ result'.success = FALSE
          /\ result'.errors[1] = Err("Aborted", "error")
          /\ result'.filesIndexed = acc.filesIndexed
          /\ result'.filesSkipped = acc.filesSkipped
          /\ result'.nodesCreated = acc.totalNodes
          /\ result'.edgesCreated = acc.totalEdges
          /\ db' = db
     /\ (op = "indexAll" /\ db' # db) =>
          /\ ~aborted
          /\ pc = "file"
          /\ OthersUntouched(scanned[pos + 1])
    ]_vars

\* indexAll has returned on abort at the head of the second batch, with the
\* files of the first batch stored.
C8_Witness ==
  /\ pc = "done"
  /\ op = "indexAll"
  /\ result.kind = "index"
  /\ ~result.success
  /\ Len(result.errors) > 0
  /\ result.errors[1] = Err("Aborted", "error")
  /\ pos = FILE_IO_BATCH_SIZE
  /\ result.filesIndexed = FILE_IO_BATCH_SIZE
  /\ \A i \in 1..FILE_IO_BATCH_SIZE : db.files[scanned[i]].present
  /\ ~db.files[scanned[FILE_IO_BATCH_SIZE + 1]].present


(***************************************************************************)
(* Properties of FileLock.                                                 *)
(***************************************************************************)
\* C9: at any time at most one running process holds the lock.
C9_AtMostOneHolder ==
  Cardinality({p \in alive : held[p]}) <= 1

NamesLockFile(err) == \E i \in 1..Len(err) : err[i] = lockPath

\* The step in which the acquire of p ends.
AcquireEnds(p) == lpc[p] \notin {"held", "failed"} /\ lpc'[p] \in {"held", "failed"}

\* An acquire that found a live owner throws an error naming the lock file,
\* leaves the lock file as it is and does not hold the lock.
LiveOwnerRefused(p) ==
  obs'[p] = "alive" =>
    /\ lpc'[p] = "failed"
    /\ NamesLockFile(lerr'[p])
    /\ ~held'[p]
    /\ lockFile' = lockFile

NoRepeat(l) == \A i, j \in 1..Len(l) : l[i] = l[j] => i = j

\* C11: getChangedFiles returns as added exactly the indexable files on disk
\* that have no file record, as modified exactly the files on disk whose
\* record holds another hash than that of their content, and as removed
\* exactly the file records whose file is gone; no path is in two of the
\* lists, and an indexed, unchanged file is in none.
C11_GetChangedFilesExact ==
  (pc = "done" /\ op = "getChangedFiles") =>
    /\ SeqToSet(result.added) =
         {p \in Paths : /\ shouldIncludeFile(p)
                        /\ disk[p] # NoFile
                        /\ ~db.files[p].present}
    /\ SeqToSet(result.modified) =
         {p \in Paths : /\ disk[p] # NoFile
                        /\ db.files[p].present
                        /\ db.files[p].contentHash # hashContent(disk[p])}
    /\ SeqToSet(result.removed) =
         {p \in Paths : db.files[p].present /\ disk[p] = NoFile}
    /\ NoRepeat(result.added \o result.modified \o result.removed)

\* C12: indexFiles(paths) gives what indexAll gives for the same files: when
\* every path passed is a file that indexAll's scan returns, the store after
\* indexFiles and the IndexResult it returns are those of indexAll's batch
\* reader and per-file loop run over these paths on the same store.
C12_IndexFilesAsIndexAll ==
  [][(pc = "idle" /\ pc' = "done" /\ op' = "indexFiles"
        /\ SeqToSet(queue') \subseteq SeqToSet(scanDirectory(disk, head, gitRepo)))
       => LET all == indexAllLoop(db, disk, queue', clock, ZeroAcc)
          IN  /\ db' = all.db
              /\ result' = IndexResult(all.acc)]_vars

\* A file that is indexed and whose content on disk hashes to the recorded
\* hash.
UnchangedIndexed(p) ==
  /\ p \in Paths
  /\ disk[p] # NoFile
  /\ db.files[p].present
  /\ db.files[p].contentHash = hashContent(disk[p])

\* C13: re-indexing an indexed file whose content is unchanged leaves the
\* store (file record, nodes, edges, unresolved references) as it was, and
\* the run reports no node and no edge created for it.
C13_ReindexUnchangedIsNoOp ==
  [][(pc = "idle" /\ pc' = "done" /\ op' = "indexFiles"
        /\ Len(queue') = 1 /\ UnchangedIndexed(queue'[1]))
       => /\ db' = db
          /\ result'.nodesCreated = 0
          /\ result'.edgesCreated = 0]_vars

\* A file on disk whose size is above max_file_size.
Oversized(p) == p \in Paths /\ disk[p] # NoFile /\ Size(disk[p]) > maxFileSize

\* C14: a pass (indexFiles or indexAll) over a file larger than max_file_size
\* reports it with a warning and never with an error (a pass over oversized
\* files only succeeds and carries one warning per file), and after the pass
\* the store holds no node of the file, also when the file was indexed
\* earlier while it was below the limit.
C14_OversizedFileSkipped ==
  [][(pc = "idle" /\ pc' = "done" /\ op' \in {"indexFiles", "indexAll"})
       => LET passed == IF op' = "indexFiles" THEN queue' ELSE scanned'
          IN  /\ \A p \in SeqToSet(passed) :
                   Oversized(p) => \A n \in db'.nodes : n.filePath # p
              /\ (\A p \in SeqToSet(passed) : Oversized(p))
                   => /\ result'.success
                      /\ Len(result'.errors) = Len(passed)
                      /\ \A i \in 1..Len(passed) :
                           result'.errors[i].severity = "warning"]_vars

(***************************************************************************)
(* Properties of path checks and of the include/exclude configuration.     *)
(***************************************************************************)
\* isPathWithinRootReal: the lexical check, then the check of the real path;
\* the real path of a symbolic link in `linked` is outside the root.
isPathWithinRootReal(p) == validatePathWithinRoot(p) /\ p \notin linked

\* C17: a path that is lexically inside the root but whose real location,
\* through a symbolic link, is outside it is rejected by scanning and by
\* indexing: the scan of indexAll does not return it and the store holds no
\* node of it.
C17_SymlinkEscapeRejected ==
  /\ \A n \in db.nodes : isPathWithinRootReal(n.filePath)
  /\ (pc = "done" /\ op = "indexAll")
       => \A p \in SeqToSet(scanned) : isPathWithinRootReal(p)

\* A path is indexable when no exclude pattern matches it and some include
\* pattern does.
Indexable(p) ==
  /\ \A pat \in config.exclude : ~matchesGlob(p, pat)
  /\ \E pat \in config.include : matchesGlob(p, pat)

\* C19: shouldIncludeFile accepts exactly the indexable paths, and no
\* operation returns, adds or counts a path that is not indexable: the scan
\* of indexAll and the three lists of getChangedFiles hold indexable paths
\* only, and sync reports indexable paths only (its changed paths are
\* indexable, and it counts no more removed files than there were indexable
\* file records when it was called).
C19_OnlyIndexablePaths ==
  /\ \A p \in Paths : shouldIncludeFile(p) <=> Indexable(p)
  /\ (pc = "done" /\ op = "indexAll")
       => \A p \in SeqToSet(scanned) : Indexable(p)
  /\ (pc = "done" /\ op = "getChangedFiles")
       => \A p \in SeqToSet(result.added \o result.modified \o result.removed) :
            Indexable(p)
  /\ (pc = "done" /\ op = "sync")
       => /\ \A p \in SeqToSet(result.changedFilePaths) : Indexable(p)
          /\ result.filesRemoved
               <= Cardinality({p \in Paths : preDb[p].present /\ Indexable(p)})

\* Whole runs of indexFiles and indexAll outside a git repository, with the
\* default configuration and no symbolic link; indexFiles is given paths in
\* the project and paths that leave the root.
PathsNext ==
  \/ \E p \in Paths, c \in 1..4 : FsWrite(p, c)
  \/ \E p \in Paths : FsDelete(p)
  \/ RunIndexFiles
  \/ RunIndexAll
  \/ Return

InitPaths == IndexStart(FALSE, FALSE) /\ LockQuiet /\ AdapterQuiet /\ ExtractQuiet /\ McpQuiet /\ MutexQuiet /\ LaterQuiet
SpecPaths == InitPaths /\ [][PathsNext]_vars

TraversalBlocked == Err("Path traversal blocked", "error")

\* C18: a relative path that resolves outside the root is rejected before
\* anything is read or written.  indexFile returns the traversal error and
\* the store unchanged, whether the file outside the root exists or not;
\* indexAll's batch reader turns the path into a read error without reading;
\* indexFiles reports the traversal error for every such path, fails, and
\* leaves the store as indexFiles over the remaining paths leaves it, with
\* no file record and no node of an outside path.
C18_TraversalRejected ==
  /\ \A p \in OutsidePaths :
       /\ indexFile(db, disk, p, clock, clock, "none")
            = [db |-> db, thrown |-> FALSE,
               result |-> [NoExtraction EXCEPT !.errors = <<TraversalBlocked>>]]
       /\ indexAllLoop(db, disk, <<p>>, clock, ZeroAcc)
            = [db |-> db,
               acc |-> [ZeroAcc EXCEPT
                          !.errors = <<Err("Failed to read file", "error")>>]]
       /\ ~db.files[p].present
       /\ \A n \in db.nodes : n.filePath # p
  /\ (pc = "done" /\ op = "indexFiles")
       => LET outside == SelectSeq(queue, LAMBDA p : p \in OutsidePaths)
              inside == SelectSeq(queue, LAMBDA p : p \in Paths)
          IN  /\ outside # <<>> => ~result.success
              /\ SelectSeq(result.errors, LAMBDA e : e = TraversalBlocked)
                   = [i \in 1..Len(outside) |-> TraversalBlocked]
              /\ result.filesSkipped >= Len(outside)
              /\ inside = <<>>
                   => /\ db.files = preDb
                      /\ result.filesIndexed = 0
                      /\ result.nodesCreated = 0
                      /\ result.errors = [i \in 1..Len(outside) |-> TraversalBlocked]

\* indexFiles has returned from a list that holds a path leaving the root and
\* a project file, which it indexed.
C18_Witness ==
  /\ pc = "done" /\ op = "indexFiles"
  /\ queue = <<"../x.ts", "a.ts">>
  /\ db.files["a.ts"].present
  /\ ~result.success
  /\ result.filesIndexed = 1

(***************************************************************************)
(* Properties of the portable database adapter.                            *)
(***************************************************************************)
\* C15: transaction(fn) is atomic for every fn, also one that calls another
\* transaction wrapper: when fn returned, the wrapper returns and the rows fn
\* inserted are committed; when fn threw, the rows are as before the call
\* and the wrapper throws the error fn threw; either way no transaction is
\* left open.
C15_TransactionAtomic ==
  txn # NoTxn =>
    /\ ~sqlite.inTxn
    /\ txn.fnErr = "none"
         => txn.err = "none" /\ sqlite.rows = txn.before \cup txn.wrote
    /\ txn.fnErr # "none"
         => txn.err = txn.fnErr /\ sqlite.rows = txn.before

\* C16: when close() has returned every statement obtained through
\* prepare() is finalized, and a statement is finalized only while the
\* database is open, before this._db.close().
C16_FinalizedBeforeClose ==
  [][/\ ~isOpen' => \A s \in StmtIds : stmts'[s] # "open"
     /\ \A s \in StmtIds :
          (stmts[s] = "open" /\ stmts'[s] = "finalized") => isOpen /\ isOpen']_vars

\* close() has returned after finalizing every prepared statement.
C16_Witness ==
  /\ cpc = "closed" /\ ~isOpen
  /\ \A s \in StmtIds : stmts[s] = "finalized"

(***************************************************************************)
(* Properties of extraction.                                               *)
(***************************************************************************)
\* C20: within one extraction result no two distinct nodes share an id.
C20_NodeIdsUnique ==
  \A i, j \in 1..Len(extracted) :
    i # j => extracted[i].id # extracted[j].id

\* The contains edges of the last extraction, as pairs (parent, child).
containsEdges ==
  {<<exEdges[i].source, exEdges[i].target>> :
     i \in {k \in 1..Len(exEdges) : exEdges[k].kind = "contains"}}

\* The pairs joined by a path of at most n edges of R.
RECURSIVE pathsUpTo(_, _)
pathsUpTo(R, n) ==
  IF n <= 1 THEN R
  ELSE LET P == pathsUpTo(R, n - 1)
       IN  P \cup {<<q[1][1], q[2][2]>> :
                      q \in {x \in P \X R : x[1][2] = x[2][1]}}

\* C21: the contains edges of one extraction form a forest: a node has at
\* most one contains-parent, and no node is joined to itself by a path of
\* contains edges.
C21_ContainsIsForest ==
  /\ \A e1, e2 \in containsEdges : e1[2] = e2[2] => e1[1] = e2[1]
  /\ \A e \in pathsUpTo(containsEdges, MaxDecls + 1) : e[1] # e[2]

\* The declaration around source[i], 0 for a top-level syntax node.
containerOf(i) == parentOf(source, i, i - 1)

\* C22: after an extraction every import statement of the file has an
\* unresolved reference of kind imports at its position, attached to the
\* node of the class around it, or to some node when it is at the top level.
C22_ImportsYieldReference ==
  exNow # NoRun =>
    \A i \in 1..Len(source) :
      source[i].type \in importTypes =>
        \E k \in 1..Len(exRefs) :
          /\ exRefs[k].referenceKind = "imports"
          /\ exRefs[k].referenceName = source[i].name
          /\ exRefs[k].line = source[i].row + 1
          /\ exRefs[k].column = source[i].column
          /\ containerOf(i) # 0 =>
               exRefs[k].fromNodeId =
                 idAt(source, containerOf(i))

\* The ids of a sequence of nodes, in order.
idsOf(nodes) == [i \in 1..Len(nodes) |-> nodes[i].id]

\* C23: the id of every extracted node is generateNodeId of its file path,
\* kind, name and start line, and an extraction of the same file at any
\* other time gives the same node ids and the same set of edges.
C23_ExtractionDeterministic ==
  exNow # NoRun =>
    /\ \A i \in 1..Len(extracted) :
         extracted[i].id =
           generateNodeId(extracted[i].filePath, extracted[i].kind,
                          extracted[i].name, extracted[i].startLine)
    /\ \A now \in 0..MaxClock :
         LET again == extract("a.ts", source, now)
         IN  /\ idsOf(again.nodes) = idsOf(extracted)
             /\ SeqToSet(again.edges) = SeqToSet(exEdges)

\* A class with two members was extracted at a time other than 0: the nodes
\* of a run at time 0 differ from it in updatedAt.
C23_Witness ==
  /\ exNow = MaxClock
  /\ Len(extracted) = 3
  /\ Len(exEdges) = 2
  /\ extract("a.ts", source, 0).nodes # extracted

(***************************************************************************)
(* Properties that relate two runs of sync.                                *)
(***************************************************************************)
\* sync has returned and the work tree has not changed since it was called
\* (whole runs: nothing changes during a run).
NoChangeReported(r) ==
  r.filesAdded = 0 /\ r.filesModified = 0 /\ r.filesRemoved = 0

\* C29: sync is idempotent: when sync has just returned, a second sync on
\* the same filesystem reports no file added, modified or removed and leaves
\* the store as the first one left it.
C29_SyncIdempotent ==
  (pc = "done" /\ op = "sync")
    => LET second == syncRun(db, disk, head, gitRepo, clock)
       IN  NoChangeReported(second.result) /\ second.db = db

\* C30: on the same filesystem and the same store, sync through the git fast
\* path and sync through the full-scan fallback report the same filesAdded,
\* filesModified and filesRemoved and leave the same store.
C30_GitPathAsFallback ==
  (pc = "idle" /\ gitRepo)
    => LET fast == syncRun(db, disk, head, TRUE, clock)
           scan == syncRun(db, disk, head, FALSE, clock)
       IN  /\ fast.result.filesAdded = scan.result.filesAdded
           /\ fast.result.filesModified = scan.result.filesModified
           /\ fast.result.filesRemoved = scan.result.filesRemoved
           /\ fast.db = scan.db

(***************************************************************************)
(* Properties of the errors of indexAll.                                   *)
(***************************************************************************)
\* The work tree is edited: a file with one function or a file on which the
\* parser throws.
FsPut(p, c) ==
  /\ UNCHANGED outsideIndex
  /\ pc = "idle"
  /\ disk[p] # c
  /\ disk' = [disk EXCEPT ![p] = c]
  /\ lastRun' = FALSE
  /\ UNCHANGED <<head, gitRepo, dbFaults, db, clock, pc, runvars>>

\* Whole runs of indexAll in a git repository, where the scan also returns
\* the tracked files that were deleted from the work tree.
ErrorsNext ==
  \/ \E p \in Paths, c \in {1, 4} : FsPut(p, c)
  \/ \E p \in Paths : FsDelete(p)
  \/ GitCommit
  \/ RunIndexAll
  \/ Return

InitErrors == IndexStart(TRUE, FALSE) /\ LockQuiet /\ AdapterQuiet /\ ExtractQuiet /\ McpQuiet /\ MutexQuiet /\ LaterQuiet
SpecErrors == InitErrors /\ [][ErrorsNext]_vars

\* indexAll has returned.
IndexAllReturned == pc = "done" /\ op = "indexAll"

\* The files of the scan that indexAll could not index: unreadable,
\* oversized, or with a parse error.
Unreadable(p) == disk[p] = NoFile
ParseFails(p) == disk[p] = 4
FailedFiles(files) ==
  SelectSeq(files, LAMBDA p : Unreadable(p) \/ ParseFails(p) \/ Oversized(p))

\* C25: a read failure or a parse error on one file is recorded in
\* IndexResult.errors and does not stop indexAll: the result carries one
\* entry per failed file, in scanner order, and every file of the scan that
\* can be read and extracted has its file record and its nodes in the store
\* when indexAll returns, wherever it stands in the scan.
C25_ErrorsDoNotStopIndexAll ==
  IndexAllReturned =>
    /\ Len(result.errors) = Len(FailedFiles(scanned))
    /\ \A i \in 1..Len(result.errors) :
         LET p == FailedFiles(scanned)[i]
         IN  result.errors[i].message
               = CASE Unreadable(p) -> "Failed to read file"
                   [] ParseFails(p) -> "Parse error"
                   [] OTHER -> "File exceeds max size"
    /\ \A p \in SeqToSet(scanned) :
         (~Unreadable(p) /\ ~ParseFails(p) /\ ~Oversized(p))
           => /\ db.files[p].present
              /\ db.files[p].contentHash = hashContent(disk[p])
              /\ \E n \in db.nodes : n.filePath = p

\* indexAll has returned from a scan whose first file is unreadable, whose
\* second file has a parse error and whose third file was indexed.
C25_Witness ==
  /\ IndexAllReturned
  /\ scanned = PathOrder
  /\ Unreadable("a.ts") /\ ParseFails("b.ts") /\ disk["c.ts"] = 1
  /\ db.files["c.ts"].present
  /\ Len(result.errors) = 2

\* Whether an entry of IndexResult.errors names the file it concerns.  An
\* entry is {message, severity}: no code of indexAll or indexFileWithContent
\* sets a path field.  The message of a failed read ends with the message of
\* the error thrown by readFile, which names the path; the messages of a
\* blocked path, of an oversized file and of a parse error are built without
\* the path.
ErrorNamesFile(e) ==
  \/ "filePath" \in DOMAIN e
  \/ e.message = "Failed to read file"

\* C26: every per-file failure entry of IndexResult.errors identifies the
\* file it concerns by carrying that file's path.
C26_ErrorsCarryPath ==
  IndexAllReturned =>
    \A i \in 1..Len(result.errors) : ErrorNamesFile(result.errors[i])

(***************************************************************************)
(* Properties of the language registry.                                    *)
(***************************************************************************)
\* Files of a language with a grammar, of liquid, of a language whose
\* grammar did not load and of no known language.
LangPaths == {"a.ts", "b.ts", "t.liquid", "k.kt", "r.txt"}

\* indexFileWithContent is called with the content read from a file.
IndexContent(p, c) ==
  /\ UNCHANGED outsideIndex
  /\ pc = "idle"
  /\ LET r == indexFileWithContent(db, p, c, Size(c), clock, clock, "none")
     IN  /\ db' = r.db
         /\ result' = [kind |-> "extraction", path |-> p,
                       nodes |-> r.result.nodes, errors |-> r.result.errors]
  /\ pc' = "done"
  /\ op' = "indexFileWithContent"
  /\ preDb' = db.files
  /\ UNCHANGED <<disk, head, gitRepo, dbFaults, clock, scanned, pos, batch, acc,
                 queue, aborted, noYield, lastRun>>

LangNext ==
  \/ \E p \in LangPaths, c \in 1..4 : IndexContent(p, c)
  \/ Return

InitLang == IndexStart(FALSE, FALSE) /\ LockQuiet /\ AdapterQuiet /\ ExtractQuiet /\ McpQuiet /\ MutexQuiet /\ LaterQuiet
SpecLang == InitLang /\ [][LangNext]_vars

\* C24: liquid is reported as supported although it has no tree parser, and
\* indexing a file of a language reported as supported gives no entry of
\* severity error for a missing parser.
C24_SupportedLanguageIndexes ==
  /\ isLanguageSupported("liquid")
  /\ getParser("liquid") = "null"
  /\ (pc = "done" /\ op = "indexFileWithContent"
        /\ isLanguageSupported(detectLanguage(result.path)))
       => \A i \in 1..Len(result.errors) :
            ~(result.errors[i].message = "Failed to get parser"
                /\ result.errors[i].severity = "error")

(***************************************************************************)
(* Properties of the MCP server.                                           *)
(***************************************************************************)
\* The only response to the last line is an error with this id and code.
OnlyError(id, code) == sent = <<[id |-> id, error |-> TRUE, code |-> code]>>

\* The last line is a JSON-RPC 2.0 message with an id.
IsRequest ==
  /\ lastLine.text = "json"
  /\ lastLine.value.isObject
  /\ lastLine.value.jsonrpc = "2.0"
  /\ lastLine.value.method \notin {"#7", "absent"}
  /\ lastLine.value.id # "absent"

\* C27: the error response to a line carries the reserved code of its failure
\* class: -32700 with id null for a line that is not JSON, -32600 with id
\* null for JSON that is not a JSON-RPC 2.0 message, -32601 for a request
\* with an unknown method, -32602 for tools/call without a known tool name,
\* -32603 with the request's id when the handler of a request throws; no
\* other line gets an error response.
C27_ReservedErrorCodes ==
  LET m == lastLine.value
      notJson == lastLine.text = "garbage"
      notMessage == lastLine.text = "json" /\
                    (~m.isObject \/ m.jsonrpc # "2.0" \/ m.method \in {"#7", "absent"})
      unknownMethod == IsRequest /\
                       m.method \notin {"initialize", "initialized", "tools/list",
                                        "tools/call", "ping"}
      badTool == IsRequest /\ m.method = "tools/call" /\
                 (~m.hasParams \/ m.toolName = "absent" \/ m.toolName \notin tools)
      threw == IsRequest /\ ~badTool /\ lastLine.throws /\
               m.method \in {"initialize", "tools/call"}
  IN  /\ notJson => OnlyError("null", -32700)
      /\ notMessage => OnlyError("null", -32600)
      /\ unknownMethod => OnlyError(m.id, -32601)
      /\ badTool => OnlyError(m.id, -32602)
      /\ threw => OnlyError(m.id, -32603)
      /\ \A i \in 1..Len(sent) :
           sent[i].error => notJson \/ notMessage \/ unknownMethod \/ badTool \/ threw

\* The execution of a known tool threw and request 2 got the internal error.
C27_Witness ==
  /\ IsRequest
  /\ lastLine.value.method = "tools/call"
  /\ lastLine.value.toolName \in tools
  /\ lastLine.throws
  /\ OnlyError("2", -32603)

\* The last line is a JSON-RPC 2.0 message without an id.
IsNotification ==
  /\ lastLine.text = "json"
  /\ lastLine.value.isObject
  /\ lastLine.value.jsonrpc = "2.0"
  /\ lastLine.value.method \notin {"#7", "absent"}
  /\ lastLine.value.id = "absent"

\* C37: a well-formed message with an id gets exactly one response, with
\* that id, whatever its method; a message without an id gets none.
C37_OneResponsePerRequest ==
  /\ IsRequest => (Len(sent) = 1 /\ sent[1].id = lastLine.value.id)
  /\ IsNotification => sent = <<>>

(***************************************************************************)
(* Properties of Mutex.                                                    *)
(***************************************************************************)
\* C28: no two functions passed to withLock run at the same time, and at
\* most one caller is between the resolution of acquire() and the call of
\* its release function.
C28_MutualExclusion ==
  \A p, q \in Callers :
    (mpc[p] \in {"acquired", "running"} /\ mpc[q] \in {"acquired", "running"})
      => p = q

\* One caller's function runs while a second caller waits in the queue and a
\* third, woken by an earlier release, has not run again yet.
C28_Witness ==
  \E p, q, r \in Callers :
    /\ mpc[p] = "running"
    /\ mpc[q] = "waiting"
    /\ mpc[r] = "woken"
    /\ locked

(***************************************************************************)
(* Properties of the nodes, edges and references of one extraction.        *)
(***************************************************************************)
\* The indices of the declarations of the file created inside another
\* created declaration, in document order.
RECURSIVE createdInside(_, _)
createdInside(decls, i) ==
  IF i > Len(decls) THEN <<>>
  ELSE IF isCreated(decls, i) /\ parentOf(decls, i, i - 1) # 0
    THEN <<i>> \o createdInside(decls, i + 1)
  ELSE createdInside(decls, i + 1)

\* C31: every node created while nodeStack is not empty gets exactly one
\* contains edge, from the node on top of nodeStack (its immediate parent) to
\* the new node: the edges of an extraction are, in order, those of the
\* declarations created inside another one.
C31_OneContainsEdgePerNestedNode ==
  exNow # NoRun =>
    LET nested == createdInside(source, 1)
    IN  /\ Len(exEdges) = Len(nested)
        /\ \A k \in 1..Len(nested) :
             /\ exEdges[k].kind = "contains"
             /\ exEdges[k].target = idAt(source, nested[k])
             /\ exEdges[k].source =
                  idAt(source, parentOf(source, nested[k], nested[k] - 1))

\* A class in a class in a class was extracted: the innermost one was created
\* with two ids on nodeStack.
C31_Witness ==
  /\ exNow # NoRun
  /\ Len(source) = 3
  /\ \A i \in 1..3 : source[i].type \in classTypes /\ source[i].depth = i - 1
  /\ Len(exEdges) = 2

\* C32: after an extraction every call expression that lies in a created
\* node has exactly one reference of kind calls at its position, and that
\* reference comes from the innermost created node around the call.
C32_CallsYieldReference ==
  exNow # NoRun =>
    \A i \in 1..Len(source) :
      (source[i].type \in callTypes /\ innermostCreated(source, i) # 0) =>
        LET found == {k \in 1..Len(exRefs) :
                        /\ exRefs[k].referenceKind = "calls"
                        /\ exRefs[k].line = source[i].row + 1
                        /\ exRefs[k].column = source[i].column}
        IN  /\ Cardinality(found) = 1
            /\ \A k \in found :
                 exRefs[k].fromNodeId = idAt(source, innermostCreated(source, i))

\* C33: a function or method declaration for which a node is created gets
\* the kind method exactly when the declaration around it is a class, and
\* the kind function otherwise (TypeScript has no struct, and the members of
\* an interface are not in the model).
C33_MethodIffInsideClass ==
  exNow # NoRun =>
    \A i \in 1..Len(source) :
      (source[i].type \in functionTypes \cup methodTypes /\ isCreated(source, i)) =>
        LET p == parentOf(source, i, i - 1)
            inClass == p # 0 /\ source[p].type \in classTypes
            kind == IF inClass THEN "method" ELSE "function"
        IN  \E k \in 1..Len(extracted) :
              /\ extracted[k].startLine = source[i].row + 1
              /\ extracted[k].startColumn = source[i].column
              /\ extracted[k].name = source[i].name
              /\ extracted[k].kind = kind

\* C34: for every contains edge, the line range of every node with the
\* target's id lies within the line range of every node with the source's id.
C34_ChildRangeWithinParent ==
  \A e \in 1..Len(exEdges) :
    exEdges[e].kind = "contains" =>
      \A s, t \in 1..Len(extracted) :
        (extracted[s].id = exEdges[e].source /\ extracted[t].id = exEdges[e].target)
          => /\ extracted[s].startLine <= extracted[t].startLine
             /\ extracted[t].endLine <= extracted[s].endLine


(***************************************************************************)
(* Properties of the progress events.                                      *)
(***************************************************************************)
isPrefix(s, t) == Len(s) <= Len(t) /\ SubSeq(t, 1, Len(s)) = s

\* The events of a complete run over the files: the scanning events, one
\* parsing event per file in the scanner's order counting from 1 to the
\* total, one resolving event.
eventsOf(files) ==
  <<progress("scanning", 0, 0, "")>>
    \o [k \in 1..Len(files) |-> progress("scanning", k, 0, files[k])]
    \o [k \in 1..Len(files) |-> progress("parsing", k, Len(files), files[k])]
    \o <<progress("resolving", 0, 1, "")>>

\* C35: in a run of indexAll that is not cancelled the progress events come in
\* phase order: scanning events, then one parsing event per scanned file in the
\* order the scanner returned the files with current counting 1, 2, ...,
\* total, then one resolving event, whatever the order in which the reads of a
\* batch complete.
C35_ProgressInPhaseOrder ==
  ppc # "idle" =>
    /\ isPrefix(events, eventsOf(pfiles))
    /\ ppc = "done" => events = eventsOf(pfiles)

\* The two reads of the first batch completed in the reverse order, and both
\* files of the batch have had their parsing event.
C35_Witness ==
  /\ ppc = "files" /\ ppos = 0 /\ pidx = 3
  /\ Len(readsDone) = 2 /\ readsDone[1].filePath = pfiles[2]
  /\ events[Len(events)].phase = "parsing"


(***************************************************************************)
(* Properties of the filesystem walk.                                      *)
(***************************************************************************)
\* C36: the filesystem walk terminates on every finite directory tree, also
\* when symbolic links form cycles, and it enumerates the entries of each real
\* directory at most once.
C36_WalkTerminatesOncePerDir ==
  /\ [](\A d \in Dirs : readdirs[d] <= 1)
  /\ (wpc = "walking") ~> (wpc = "done")

\* A scan has ended on a tree where a link in the innermost directory names
\* the root and a link in the root names the innermost directory; the three
\* directories were enumerated.
C36_Witness ==
  /\ wpc = "done"
  /\ {<<"b", "r">>, <<"r", "b">>} \subseteq links
  /\ \A d \in Dirs : readdirs[d] = 1


(***************************************************************************)
(* Properties of the server's default project.                             *)
(***************************************************************************)
\* C38: whatever the interleaving of the incoming messages, the server opens
\* at most one default CodeGraph instance, and stop() closes every instance
\* the server opened.
C38_OneDefaultInstanceAllClosed ==
  /\ Cardinality(opened) <= 1
  /\ stopped => opened \subseteq closed


(***************************************************************************)
(* Properties of the tree format.                                          *)
(***************************************************************************)
\* The header lines of a node.
headersOf(id) == {i \in 1..Len(lines) : lines[i].type = "header" /\ lines[i].id = id}

\* C39: formatSubgraphTree terminates on every subgraph, also one whose edges
\* form cycles, and writes the header line of each node at most once: every
\* call has a result, and in it no node has two header lines.
C39_EachNodePrintedOnce ==
  subgraph # NoSubgraph => \A id \in NodeIds : Cardinality(headersOf(id)) <= 1

\* A subgraph with mutual recursion was formatted from an entry point on the
\* cycle, which is also named twice as an entry point.
C39_Witness ==
  /\ subgraph.entryPoints = <<"n1", "n1">>
  /\ \E i, j \in 1..Len(subgraph.edges) :
       /\ subgraph.edges[i].source = "n1" /\ subgraph.edges[i].target = "n2"
       /\ subgraph.edges[j].source = "n2" /\ subgraph.edges[j].target = "n1"
  /\ \E i \in 1..Len(lines) : lines[i] = line("header", "n2", 2)


\* C40: no waiter of the Mutex starves: provided every holder calls its
\* release function, every acquire() call that waits resolves in the end,
\* also when other callers keep acquiring and releasing the Mutex.
C40_NoStarvation ==
  \A p \in Callers : (mpc[p] = "waiting") ~> (mpc[p] = "acquired")

============================================================================
